---------------------------- MODULE Spec2Model ----------------------------
(***************************************************************************)
(* A model of the Dallas Buyers Club programs: the case study program      *)
(* (submissions, weighted votes, threshold access), the treasury program   *)
(* (capped daily rewards, configuration) and the shared slash arithmetic.  *)
(*                                                                         *)
(* Every instruction is one atomic action (a Solana transaction either     *)
(* commits or leaves no trace).  A failed instruction changes nothing but  *)
(* `result`, which records the last instruction and the error it returned. *)
(* Accounts are keyed by their address; an address that holds no account   *)
(* maps to NoAccount.  ValidatorStake accounts are created at a fresh      *)
(* address chosen by the caller, so they are kept as a bag of records (the *)
(* accounts up to the renaming of their addresses).                        *)
(***************************************************************************)
EXTENDS Integers, Sequences, FiniteSets, Bags, TLC

VARIABLES
    case_study,            \* case study address -> CaseStudy account
    validator_stake,       \* bag of ValidatorStake accounts (case study program)
    validator_reputation,  \* validator -> ValidatorReputation (case study program)
    token_account,         \* owner -> DBC balance of the owner's token account
    access_request,        \* access request address -> AccessRequest account
    treasury,              \* the Treasury account (config and running totals)
    distribution_tracker,  \* <<day, category>> -> amount distributed
    treasury_reputation,   \* validator -> ValidatorReputation (treasury program)
    stake_account,         \* <<validator, staked_at>> -> StakeAccount (treasury)
    clock,                 \* Clock::get()?.unix_timestamp
    token_config,          \* the TokenConfig account (token program)
    token_stake,           \* stake address -> StakeAccount (token program)
    slash_call,            \* log of the library computations: inputs and outputs
    result                 \* last instruction and its outcome

csVars == <<case_study, validator_stake, validator_reputation, token_account>>
accVars == <<access_request>>
trVars == <<treasury, distribution_tracker, treasury_reputation, stake_account, clock>>
tokVars == <<token_config, token_stake>>
vars == <<case_study, validator_stake, validator_reputation, token_account,
          access_request, treasury, distribution_tracker, treasury_reputation,
          stake_account, clock, token_config, token_stake, slash_call, result>>

-----------------------------------------------------------------------------
(* Bounds of the model *)

\* Votes each validator can pay for: its token account starts with this many
\* minimum stakes.
InitialStakes == 3

\* Width of the model's unsigned machine word standing for u64.  Token amounts
\* are counted in whole DBC (DBC_MULTIPLIER base units each), so that the
\* products the code forms for ordinary rewards fit this word as they fit u64.
U64Bits == 26

\* Half days the clock may advance.
MaxTicks == 2

\* DBC the treasury token account is funded with.
TreasuryFunds == 300

\* Slash computations in one run of the slash arithmetic.
MaxSlashCalls == 2

\* Confirmed slashes of one validator in one run of the slash coordinator.
MaxConfirms == 4

\* Lock periods (weeks) the clock may advance in the treasury ledger.
MaxWeeks == 1

\* Tier derivations in one run of the tier functions.
MaxTierCalls == 2

-----------------------------------------------------------------------------
(* Principals and addresses *)

Validators == {"v1", "v2"}
TokenOwners == Validators \cup {"stake_escrow", "treasury", "alice"}
CaseStudyKeys == {"cs1", "cs2"}
AccessRequestKeys == {"ar1"}
TokenStakeKeys == {"k1", "k2"}
EscrowAuthority == "escrow_authority"
DefaultPubkey == "11111111111111111111111111111111"
NoAccount == [is_initialized |-> FALSE]

Tiers == {"Bronze", "Silver", "Gold", "Platinum"}
ValidationTypes == {"Approve", "Reject", "FurtherReview"}

\* u32 counters are far from their limit in every run of the model; the word
\* standing for u32 is the widest a 32-bit integer holds.
U32_MAX == 2^30 + (2^30 - 1)
U64_MAX == 2^U64Bits - 1

Ok(op) == [op |-> op, err |-> "Ok"]
Err(op, e) == [op |-> op, err |-> e]

-----------------------------------------------------------------------------
(* Checked arithmetic (Rust's checked_add on u32 and u64); None is -1 *)

None == 0 - 1

checked_add_u32(a, b) == IF a > U32_MAX - b THEN None ELSE a + b

checked_add_u64(a, b) == IF a > U64_MAX - b THEN None ELSE a + b

Min(a, b) == IF a <= b THEN a ELSE b

-----------------------------------------------------------------------------
(* Case study program: constants and helpers *)

\* Base units of one DBC.  The model counts every token amount in whole DBC.
DBC_MULTIPLIER == 1000000

MINIMUM_VALIDATOR_STAKE == 100000000 \div DBC_MULTIPLIER
CRITICAL_RISK_THRESHOLD == 75

\* The weight a vote is counted with, from the tier of the reputation account
\* the vote is cast with (the accuracy rate the code also computes is unused).
calculate_validator_weight_platinum4(reputation) ==
    CASE reputation.tier = "Bronze" -> 1
      [] reputation.tier = "Silver" -> 2
      [] reputation.tier = "Gold" -> 3
      [] reputation.tier = "Platinum" -> 4

calculate_validator_weight(reputation) ==
    CASE reputation.tier = "Bronze" -> 1
      [] reputation.tier = "Silver" -> 2
      [] reputation.tier = "Gold" -> 3
      [] reputation.tier = "Platinum" -> 5

\* The score rounded up instead of truncated.
weighted_score_rounded_up(old_score, approval_count, total_votes) ==
    IF total_votes > 0
    THEN (approval_count * 100 + total_votes - 1) \div total_votes
    ELSE old_score

\* reputation_score after a vote: recomputed only when total_votes > 0.
weighted_score(old_score, approval_count, total_votes) ==
    IF total_votes > 0 THEN (approval_count * 100) \div total_votes ELSE old_score

\* validation_status after a vote (auto-approve / auto-reject).
consensus_status_strict(old_status, total_votes, score) ==
    IF total_votes > 5 /\ score >= 75 THEN "Approved"
    ELSE IF score < 25 /\ total_votes > 5 THEN "Rejected"
    ELSE old_status

consensus_status(old_status, total_votes, score) ==
    IF total_votes >= 5 /\ score >= 75 THEN "Approved"
    ELSE IF score < 25 /\ total_votes >= 5 THEN "Rejected"
    ELSE old_status

\* The ValidatorStake account as `init` hands it to the instruction: zeroed.
FreshValidatorStake ==
    [validator |-> DefaultPubkey, case_study |-> DefaultPubkey, stake_amount |-> 0,
     validation_type |-> "Approve", is_slashed |-> FALSE, slashed_amount |-> 0,
     reputation_weight |-> 0]

StakesOn(s) == {r \in BagToSet(validator_stake) : r.case_study = s}

\* Number of ValidatorStake accounts that satisfy P.
RECURSIVE SumCopies(_, _)
SumCopies(S, B) ==
    IF S = {} THEN 0
    ELSE LET r == CHOOSE x \in S : TRUE
         IN CopiesIn(r, B) + SumCopies(S \ {r}, B)

VoteRecords(v, s) ==
    SumCopies({r \in BagToSet(validator_stake) : r.validator = v /\ r.case_study = s},
              validator_stake)

VoteRecordsOn(s) == SumCopies(StakesOn(s), validator_stake)

-----------------------------------------------------------------------------
(* Case study program: instructions *)

\* submit_encrypted_case_study.  The CaseStudy account is created (`init`) at
\* address s before the handler runs; the handler checks its inputs in order.
SubmitError(s, cid_ok, treatment_category, duration_days, compression_ratio, proof_len, light_len) ==
    IF case_study[s] # NoAccount THEN "AccountAlreadyInUse"
    ELSE IF ~cid_ok THEN "InvalidIPFSCid"
    ELSE IF ~(treatment_category <= 2) THEN "InvalidCategory"
    ELSE IF ~(duration_days > 0 /\ duration_days <= 365) THEN "InvalidDuration"
    ELSE IF ~(compression_ratio >= 2 /\ compression_ratio <= 100)
         THEN "InvalidCompressionRatio"
    ELSE IF ~(proof_len > 0) THEN "MissingEncryptionProof"
    ELSE IF ~(light_len > 0) THEN "MissingLightProtocolProof"
    ELSE "Ok"

submit_encrypted_case_study(s, submitter, cid_ok, treatment_category, duration_days, compression_ratio, proof_len, light_len) ==
    LET e == SubmitError(s, cid_ok, treatment_category, duration_days,
                         compression_ratio, proof_len, light_len)
    IN  /\ result' = Err("submit_encrypted_case_study", e)
        /\ IF e = "Ok"
           THEN case_study' = [case_study EXCEPT ![s] =
                    [is_initialized |-> TRUE,
                     submitter |-> submitter,
                     validation_status |-> "Pending",
                     approval_count |-> 0,
                     rejection_count |-> 0,
                     reputation_score |-> 0,
                     is_paused |-> FALSE,
                     threshold_shares_required |-> 3,
                     attention_token_mint |-> None,
                     attention_token_created_at |-> None]]
           ELSE UNCHANGED case_study
        /\ UNCHANGED <<validator_stake, validator_reputation, token_account>>
        /\ UNCHANGED <<accVars, tokVars, trVars, slash_call>>

\* The approval tally if a FurtherReview vote counted as an approval.
approval_after_counts_review(cs, validation_type, weight) ==
    IF validation_type # "Reject"
    THEN checked_add_u32(cs.approval_count, weight)
    ELSE cs.approval_count

\* The tallies after a vote of the given kind and weight; None on overflow.
approval_after(cs, validation_type, weight) ==
    IF validation_type = "Approve"
    THEN checked_add_u32(cs.approval_count, weight)
    ELSE cs.approval_count

rejection_after(cs, validation_type, weight) ==
    IF validation_type = "Reject"
    THEN checked_add_u32(cs.rejection_count, weight)
    ELSE cs.rejection_count

\* The checks of validator_prove_integrity without the one on is_paused.
VoteError_ignores_pause(v, s, validation_type, proof_len, stake_amount, noir_circuit_id) ==
    IF case_study[s] = NoAccount THEN "AccountNotInitialized"
    ELSE IF ~(stake_amount >= MINIMUM_VALIDATOR_STAKE) THEN "InsufficientStake"
    ELSE IF ~(proof_len > 0) THEN "InvalidProof"
    ELSE IF noir_circuit_id = "0000" THEN "InvalidCircuitId"
    ELSE IF noir_circuit_id # "noir" THEN "InvalidCircuitForValidationType"
    ELSE IF token_account[v] < stake_amount THEN "InsufficientFunds"
    ELSE "Ok"

\* validator_prove_integrity: the checks, in the order the code makes them.
\* The ValidatorStake account is created by `init` at a fresh address, so the
\* duplicate check reads a zeroed account.
VoteError(v, s, validation_type, proof_len, stake_amount, noir_circuit_id) ==
    IF case_study[s] = NoAccount THEN "AccountNotInitialized"
    ELSE IF ~(stake_amount >= MINIMUM_VALIDATOR_STAKE) THEN "InsufficientStake"
    ELSE IF ~(proof_len > 0) THEN "InvalidProof"
    ELSE IF noir_circuit_id = "0000" THEN "InvalidCircuitId"
    ELSE IF case_study[s].is_paused THEN "ValidationPaused"
    ELSE IF noir_circuit_id # "noir" THEN "InvalidCircuitForValidationType"
    ELSE IF ~(FreshValidatorStake.validator # v \/ FreshValidatorStake.case_study # s)
         THEN "DuplicateValidation"
    ELSE IF token_account[v] < stake_amount THEN "InsufficientFunds"
    ELSE LET w == calculate_validator_weight(validator_reputation[v])
             a == approval_after(case_study[s], validation_type, w)
             r == rejection_after(case_study[s], validation_type, w)
         IN  IF a = None \/ r = None THEN "OverflowError"
             ELSE IF checked_add_u32(a, r) = None THEN "OverflowError"
             ELSE "Ok"

validator_prove_integrity(v, s, validation_type, proof_len, stake_amount, noir_circuit_id) ==
    LET e == VoteError(v, s, validation_type, proof_len, stake_amount,
                       noir_circuit_id)
    IN  /\ result' = Err("validator_prove_integrity", e)
        /\ IF e = "Ok"
           THEN LET cs == case_study[s]
                    w == calculate_validator_weight(validator_reputation[v])
                    stake == [FreshValidatorStake EXCEPT
                                 !.validator = v,
                                 !.case_study = s,
                                 !.stake_amount = stake_amount,
                                 !.validation_type = validation_type,
                                 !.is_slashed = FALSE,
                                 !.reputation_weight = w]
                    a == approval_after(cs, validation_type, w)
                    r == rejection_after(cs, validation_type, w)
                    total_votes == checked_add_u32(a, r)
                    score == weighted_score(cs.reputation_score, a, total_votes)
                IN  /\ token_account' = [token_account EXCEPT
                           ![v] = @ - stake_amount,
                           !["stake_escrow"] = @ + stake_amount]
                    /\ validator_stake' = validator_stake (+) SetToBag({stake})
                    /\ case_study' = [case_study EXCEPT ![s] =
                           [cs EXCEPT
                               !.approval_count = a,
                               !.rejection_count = r,
                               !.reputation_score = score,
                               !.validation_status =
                                   consensus_status(cs.validation_status,
                                                    total_votes, score)]]
           ELSE UNCHANGED <<case_study, validator_stake, token_account>>
        /\ UNCHANGED validator_reputation
        /\ UNCHANGED <<accVars, tokVars, trVars, slash_call>>

\* The checks of agent_pause_validation with a score that must pass the
\* threshold instead of reaching it.
PauseError_above_threshold(s, agent_authority, risk_score) ==
    IF case_study[s] = NoAccount THEN "AccountNotInitialized"
    ELSE IF agent_authority # "risk_agent_pda" THEN "UnauthorizedAgent"
    ELSE IF ~(risk_score > CRITICAL_RISK_THRESHOLD) THEN "InsufficientRiskScore"
    ELSE "Ok"

\* agent_pause_validation: only the risk agent PDA, only at a critical score.
PauseError(s, agent_authority, risk_score) ==
    IF case_study[s] = NoAccount THEN "AccountNotInitialized"
    ELSE IF agent_authority # "risk_agent_pda" THEN "UnauthorizedAgent"
    ELSE IF ~(risk_score >= CRITICAL_RISK_THRESHOLD) THEN "InsufficientRiskScore"
    ELSE "Ok"

agent_pause_validation(s, agent_authority, risk_score) ==
    LET e == PauseError(s, agent_authority, risk_score)
    IN  /\ result' = Err("agent_pause_validation", e)
        /\ IF e = "Ok"
           THEN case_study' = [case_study EXCEPT ![s].is_paused = TRUE]
           ELSE UNCHANGED case_study
        /\ UNCHANGED <<validator_stake, validator_reputation, token_account>>
        /\ UNCHANGED <<accVars, tokVars, trVars, slash_call>>

\* The checks of link_attention_token without the one on an existing token.
LinkError_allows_relink(s, submitter) ==
    IF case_study[s] = NoAccount THEN "AccountNotInitialized"
    ELSE IF submitter # case_study[s].submitter THEN "ConstraintRaw"
    ELSE IF case_study[s].validation_status # "Approved" THEN "CaseStudyNotApproved"
    ELSE IF ~(case_study[s].reputation_score >= 75)
         THEN "InsufficientReputationForToken"
    ELSE IF ~(case_study[s].approval_count >= 5)
         THEN "InsufficientValidatorsForToken"
    ELSE "Ok"

\* link_attention_token: the account constraint lets only the stored
\* submitter through, then the handler checks the submission.  A mint address
\* is a positive number.
LinkError(s, submitter) ==
    IF case_study[s] = NoAccount THEN "AccountNotInitialized"
    ELSE IF submitter # case_study[s].submitter THEN "ConstraintRaw"
    ELSE IF case_study[s].validation_status # "Approved" THEN "CaseStudyNotApproved"
    ELSE IF ~(case_study[s].reputation_score >= 75)
         THEN "InsufficientReputationForToken"
    ELSE IF ~(case_study[s].approval_count >= 5)
         THEN "InsufficientValidatorsForToken"
    ELSE IF case_study[s].attention_token_mint # None
         THEN "AttentionTokenAlreadyExists"
    ELSE "Ok"

link_attention_token(s, submitter, attention_token_mint) ==
    LET e == LinkError(s, submitter)
    IN  /\ result' = Err("link_attention_token", e)
        /\ IF e = "Ok"
           THEN case_study' = [case_study EXCEPT
                    ![s].attention_token_mint = attention_token_mint,
                    ![s].attention_token_created_at = clock]
           ELSE UNCHANGED case_study
        /\ UNCHANGED <<validator_stake, validator_reputation, token_account>>
        /\ UNCHANGED <<accVars, tokVars, trVars, slash_call>>

-----------------------------------------------------------------------------
(* Case study program: threshold access *)

checked_add_u8(a, b) == IF a > 255 - b THEN None ELSE a + b

\* request_committee_access: creates the AccessRequest account at address k.
RequestError(k, s, justification_len, params_len, encryption_scheme) ==
    IF case_study[s] = NoAccount THEN "AccountNotInitialized"
    ELSE IF access_request[k] # NoAccount THEN "AccountAlreadyInUse"
    ELSE IF ~(justification_len >= 50 /\ justification_len <= 500)
         THEN "InvalidJustification"
    ELSE IF ~(params_len > 0) THEN "MissingArciumParams"
    ELSE IF ~(encryption_scheme <= 2) THEN "InvalidEncryptionScheme"
    ELSE "Ok"

request_committee_access(k, s, requester, justification_len, params_len, encryption_scheme) ==
    LET e == RequestError(k, s, justification_len, params_len, encryption_scheme)
    IN  /\ result' = Err("request_committee_access", e)
        /\ IF e = "Ok"
           THEN access_request' = [access_request EXCEPT ![k] =
                    [is_initialized |-> TRUE,
                     case_study |-> s,
                     requester |-> requester,
                     status |-> "Pending",
                     approvals |-> 0,
                     required_approvals |-> case_study[s].threshold_shares_required,
                     encryption_scheme |-> encryption_scheme]]
           ELSE UNCHANGED access_request
        /\ UNCHANGED <<csVars, trVars, tokVars, slash_call>>

\* The status of a request once its approvals are counted.
access_status_after_late(approvals, required_approvals) ==
    IF approvals > required_approvals THEN "Granted" ELSE "Pending"

access_status_after(approvals, required_approvals) ==
    IF approvals >= required_approvals THEN "Granted" ELSE "Pending"

\* The checks of approve_access_request without the one on the status.
ApproveError_any_status(k, v, stake, share_proof_len) ==
    IF access_request[k] = NoAccount THEN "AccountNotInitialized"
    ELSE IF ~(share_proof_len > 0) THEN "MissingArciumShareProof"
    ELSE IF stake.case_study # access_request[k].case_study
         THEN "ValidatorNotAuthorized"
    ELSE "Ok"

\* approve_access_request by signer v, who passes the ValidatorStake account
\* `stake` (any account of that type: it is not tied to the signer).
ApproveError(k, v, stake, share_proof_len) ==
    IF access_request[k] = NoAccount THEN "AccountNotInitialized"
    ELSE IF access_request[k].status # "Pending" THEN "AccessAlreadyProcessed"
    ELSE IF ~(share_proof_len > 0) THEN "MissingArciumShareProof"
    ELSE IF stake.case_study # access_request[k].case_study
         THEN "ValidatorNotAuthorized"
    ELSE IF checked_add_u8(access_request[k].approvals, 1) = None
         THEN "OverflowError"
    ELSE "Ok"

approve_access_request(k, v, stake, share_proof_len) ==
    LET e == ApproveError(k, v, stake, share_proof_len)
    IN  /\ result' = Err("approve_access_request", e)
        /\ IF e = "Ok"
           THEN LET ar == access_request[k]
                    approvals == checked_add_u8(ar.approvals, 1)
                IN  access_request' = [access_request EXCEPT ![k] =
                        [ar EXCEPT
                            !.approvals = approvals,
                            !.status = access_status_after(approvals,
                                                           ar.required_approvals)]]
           ELSE UNCHANGED access_request
        /\ UNCHANGED <<csVars, trVars, tokVars, slash_call>>

-----------------------------------------------------------------------------
(* Common library: configuration and reward arithmetic *)

SECONDS_PER_DAY == 86400

STAKING_CONFIG ==
    [minimum_stake_base |-> 100000000 \div DBC_MULTIPLIER,
     lock_seconds |-> 7 * 86400]

REWARD_CONFIG ==
    [base_submission_base |-> 50000000 \div DBC_MULTIPLIER,
     max_submission_base |-> 100000000 \div DBC_MULTIPLIER,
     base_validation_base |-> 25000000 \div DBC_MULTIPLIER,
     max_validation_base |-> 50000000 \div DBC_MULTIPLIER,
     quality_bonus_percent |-> 100]

checked_mul_u64(a, b) ==
    IF a = 0 \/ b = 0 THEN 0 ELSE IF a > U64_MAX \div b THEN None ELSE a * b

\* and_then: None stays None
and_then_mul(v, b) == IF v = None THEN None ELSE checked_mul_u64(v, b)

and_then_div(v, b) == IF v = None \/ b = 0 THEN None ELSE v \div b

unwrap_or(v, default) == IF v = None THEN default ELSE v

\* The bonus divided by 100 where the code divides by 10000.
calculate_quality_bonus_percent_once(base_amount, quality_score, max_bonus_percent) ==
    LET clamped_score == Min(quality_score, 100)
        bonus == unwrap_or(and_then_div(and_then_mul(checked_mul_u64(base_amount, clamped_score), max_bonus_percent), 100), 0)
    IN  unwrap_or(checked_add_u64(base_amount, bonus), base_amount)

calculate_quality_bonus(base_amount, quality_score, max_bonus_percent) ==
    LET clamped_score == Min(quality_score, 100)
        bonus == unwrap_or(and_then_div(and_then_mul(checked_mul_u64(base_amount, clamped_score), max_bonus_percent), 10000), 0)
    IN  unwrap_or(checked_add_u64(base_amount, bonus), base_amount)

\* `(a as u128).checked_mul(b as u128).unwrap_or(0) as u64`, for a u64 and a
\* u8: the 128-bit product never overflows, and the cast keeps its low 64
\* bits.  The product is formed from the high and low parts of a, so that no
\* intermediate value exceeds a word.
mul_u128_as_u64(a, b) ==
    LET word == U64_MAX + 1
        high == ((a \div 1024) * b) % (word \div 1024)
        low == (a % 1024) * b
    IN  (high * 1024 + low) % word

\* The slash amount as calculate_slash and slash_stake both compute it: the
\* cast to u64 binds tighter than the division.
slash_amount_of(amount, percentage) ==
    mul_u128_as_u64(amount, percentage) \div 100

\* Returns <<slash_amount, burn_amount, remaining_amount>>
calculate_slash(amount, percentage) ==
    LET slash_amount == slash_amount_of(amount, percentage)
        burn == slash_amount \div 2
        remaining == amount - slash_amount
    IN  <<slash_amount, burn, remaining>>


-----------------------------------------------------------------------------
(* Treasury program *)

Categories == {"CaseStudy", "Validation"}
Days == 0 .. MaxTicks
Governance == "governance"

\* TreasuryConfig::default()
DefaultTreasuryConfig ==
    [base_submission_reward |-> 10000000 \div DBC_MULTIPLIER,
     base_validation_reward |-> 5000000 \div DBC_MULTIPLIER,
     quality_bonus_percent |-> 50,
     max_daily_case_study_rewards |-> 1000000000 \div DBC_MULTIPLIER,
     max_daily_validation_rewards |-> 500000000 \div DBC_MULTIPLIER,
     stake_lock_days |-> 7,
     min_validator_stake |-> 100000000 \div DBC_MULTIPLIER,
     paused |-> FALSE]

\* The configurations governance chooses from: the default with daily caps
\* that the funded treasury can reach, a lower pair and a higher pair.
ConfigChoices ==
    {[DefaultTreasuryConfig EXCEPT !.max_daily_case_study_rewards = 120,
                                   !.max_daily_validation_rewards = 60],
     [DefaultTreasuryConfig EXCEPT !.max_daily_case_study_rewards = 250,
                                   !.max_daily_validation_rewards = 130]}

Today == clock \div 86400

\* init_if_needed: a ValidatorReputation account that does not exist yet is
\* created zeroed.
ReputationOf(v) ==
    IF treasury_reputation[v].is_initialized THEN treasury_reputation[v]
    ELSE [is_initialized |-> TRUE, validator |-> v, total_validations |-> 0,
          accurate_validations |-> 0, total_rewards |-> 0, accuracy_rate |-> 0,
          tier |-> "Bronze", last_reward_at |-> 0]

\* The tiers with Gold reserved to totals below 500.
calculate_tier_gold_below_500(total_validations, accuracy_rate) ==
    IF total_validations >= 500 /\ accuracy_rate >= 80 THEN "Platinum"
    ELSE IF total_validations >= 100 /\ total_validations < 500
              /\ accuracy_rate >= 70 THEN "Gold"
    ELSE IF total_validations >= 25 /\ accuracy_rate >= 60 THEN "Silver"
    ELSE "Bronze"

\* The tiers with Gold starting above 100 validations instead of at 100.
calculate_tier_gold_above_100(total_validations, accuracy_rate) ==
    IF total_validations >= 500 /\ accuracy_rate >= 80 THEN "Platinum"
    ELSE IF total_validations > 100 /\ accuracy_rate >= 70 THEN "Gold"
    ELSE IF total_validations >= 25 /\ accuracy_rate >= 60 THEN "Silver"
    ELSE "Bronze"

calculate_tier(total_validations, accuracy_rate) ==
    IF total_validations >= 500 /\ accuracy_rate >= 80 THEN "Platinum"
    ELSE IF total_validations >= 100 /\ accuracy_rate >= 70 THEN "Gold"
    ELSE IF total_validations >= 25 /\ accuracy_rate >= 60 THEN "Silver"
    ELSE "Bronze"

\* The daily limit check of both reward instructions.
within_daily_limit_ignores_amount(daily_total, amount, cap) ==
    daily_total <= cap

within_daily_limit(daily_total, amount, cap) ==
    unwrap_or(checked_add_u64(daily_total, amount), U64_MAX) <= cap

\* A transfer that credits the recipient and leaves the treasury's balance.
transfer_from_treasury_without_debit(to, amount) ==
    [token_account EXCEPT ![to] = @ + amount]

\* The token program's transfer_checked out of the treasury token account.
\* It is the SPL token program's code: the model takes it to move the tokens
\* when the balance covers the amount and to fail otherwise.
transfer_from_treasury(to, amount) ==
    [token_account EXCEPT !["treasury"] = @ - amount, ![to] = @ + amount]

\* initialize_treasury if `init` accepted an address that already holds the
\* treasury.
InitializeError_accepts_existing == "Ok"

\* `init`: the treasury PDA must not exist yet.
InitializeError ==
    IF treasury.is_initialized THEN "AccountAlreadyInUse" ELSE "Ok"

initialize_treasury(governance_authority, config) ==
    LET e == InitializeError IN
    IF e # "Ok"
    THEN /\ result' = Err("initialize_treasury", e)
         /\ UNCHANGED <<csVars, accVars, tokVars, trVars, slash_call>>
    ELSE /\ treasury' = [is_initialized |-> TRUE,
                         governance_authority |-> governance_authority,
                         config |-> config,
                         total_distributed |-> 0,
                         total_staked |-> 0]
         /\ result' = Ok("initialize_treasury")
         /\ UNCHANGED <<csVars, accVars, tokVars, distribution_tracker,
                        treasury_reputation, stake_account, clock, slash_call>>

case_study_reward(amount, quality_score) ==
    LET base_reward == REWARD_CONFIG.base_submission_base
        reward_amount == Min(calculate_quality_bonus(base_reward, quality_score, REWARD_CONFIG.quality_bonus_percent), REWARD_CONFIG.max_submission_base)
    IN  Min(reward_amount, amount)

RewardCaseStudyError(amount, quality_score) ==
    IF ~treasury.is_initialized THEN "AccountNotInitialized"
    ELSE IF ~(quality_score <= 100) THEN "InvalidQualityScore"
    ELSE IF ~within_daily_limit(distribution_tracker[<<Today, "CaseStudy">>], case_study_reward(amount, quality_score), treasury.config.max_daily_case_study_rewards)
         THEN "DailyLimitExceeded"
    ELSE IF token_account["treasury"] < case_study_reward(amount, quality_score)
         THEN "InsufficientFunds"
    ELSE "Ok"

reward_case_study(recipient, amount, quality_score) ==
    LET e == RewardCaseStudyError(amount, quality_score)
        final_amount == case_study_reward(amount, quality_score)
        daily_total == distribution_tracker[<<Today, "CaseStudy">>]
    IN
    IF e # "Ok"
    THEN /\ result' = Err("reward_case_study", e)
         /\ UNCHANGED <<csVars, accVars, tokVars, trVars, slash_call>>
    ELSE /\ token_account' = transfer_from_treasury(recipient, final_amount)
         /\ treasury' = [treasury EXCEPT !.total_distributed =
                            unwrap_or(checked_add_u64(@, final_amount), @)]
         /\ distribution_tracker' =
                [distribution_tracker EXCEPT ![<<Today, "CaseStudy">>] =
                    unwrap_or(checked_add_u64(daily_total, final_amount), daily_total)]
         /\ result' = Ok("reward_case_study")
         /\ UNCHANGED <<case_study, validator_stake, validator_reputation,
                        accVars, tokVars, treasury_reputation, stake_account, clock,
                        slash_call>>

validator_reward(validation_count, accuracy_rate) ==
    LET base_per_validation == REWARD_CONFIG.base_validation_base
        total_base == unwrap_or(checked_mul_u64(base_per_validation, validation_count), 0)
    IN  Min(calculate_quality_bonus(total_base, accuracy_rate, REWARD_CONFIG.quality_bonus_percent), REWARD_CONFIG.max_validation_base * validation_count)

RewardValidatorError(validation_count, accuracy_rate) ==
    IF ~treasury.is_initialized THEN "AccountNotInitialized"
    ELSE IF ~(accuracy_rate <= 100) THEN "InvalidAccuracyRate"
    ELSE IF ~within_daily_limit(distribution_tracker[<<Today, "Validation">>], validator_reward(validation_count, accuracy_rate), treasury.config.max_daily_validation_rewards)
         THEN "DailyLimitExceeded"
    ELSE IF token_account["treasury"] < validator_reward(validation_count, accuracy_rate)
         THEN "InsufficientFunds"
    ELSE "Ok"

reward_validator(v, validation_count, accuracy_rate) ==
    LET e == RewardValidatorError(validation_count, accuracy_rate)
        reward_amount == validator_reward(validation_count, accuracy_rate)
        daily_total == distribution_tracker[<<Today, "Validation">>]
        reputation == ReputationOf(v)
        total_validations == unwrap_or(checked_add_u32(reputation.total_validations, validation_count), reputation.total_validations)
    IN
    IF e # "Ok"
    THEN /\ result' = Err("reward_validator", e)
         /\ UNCHANGED <<csVars, accVars, tokVars, trVars, slash_call>>
    ELSE /\ token_account' = transfer_from_treasury(v, reward_amount)
         /\ treasury_reputation' =
                [treasury_reputation EXCEPT ![v] =
                    [reputation EXCEPT
                        !.total_rewards = unwrap_or(checked_add_u64(@, reward_amount), @),
                        !.total_validations = total_validations,
                        !.accuracy_rate = accuracy_rate,
                        !.last_reward_at = clock,
                        !.tier = calculate_tier(total_validations, accuracy_rate)]]
         /\ treasury' = [treasury EXCEPT !.total_distributed =
                            unwrap_or(checked_add_u64(@, reward_amount), @)]
         /\ distribution_tracker' =
                [distribution_tracker EXCEPT ![<<Today, "Validation">>] =
                    unwrap_or(checked_add_u64(daily_total, reward_amount), daily_total)]
         /\ result' = Ok("reward_validator")
         /\ UNCHANGED <<case_study, validator_stake, validator_reputation,
                        accVars, tokVars, stake_account, clock, slash_call>>

GovernanceError(governance_authority) ==
    IF ~treasury.is_initialized THEN "AccountNotInitialized"
    ELSE IF governance_authority # treasury.governance_authority THEN "ConstraintRaw"
    ELSE "Ok"

update_config(governance_authority, new_config) ==
    LET e == GovernanceError(governance_authority) IN
    IF e # "Ok"
    THEN /\ result' = Err("update_config", e)
         /\ UNCHANGED <<csVars, accVars, tokVars, trVars, slash_call>>
    ELSE /\ treasury' = [treasury EXCEPT !.config = new_config]
         /\ result' = Ok("update_config")
         /\ UNCHANGED <<csVars, accVars, tokVars, distribution_tracker,
                        treasury_reputation, stake_account, clock, slash_call>>

\* The cluster's clock (Clock::get) advances by half a day.
Tick ==
    /\ clock < MaxTicks * (SECONDS_PER_DAY \div 2)
    /\ clock' = clock + SECONDS_PER_DAY \div 2
    /\ result' = Ok("tick")
    /\ UNCHANGED <<csVars, accVars, tokVars, treasury, distribution_tracker,
                   treasury_reputation, stake_account, slash_call>>

saturating_sub(a, b) == IF a < b THEN 0 ELSE a - b

StakeError(v, amount) ==
    IF ~treasury.is_initialized THEN "AccountNotInitialized"
    ELSE IF <<v, clock>> \in DOMAIN stake_account THEN "AccountAlreadyInUse"
    ELSE IF ~(amount >= STAKING_CONFIG.minimum_stake_base) THEN "InsufficientStake"
    ELSE IF token_account[v] < amount THEN "InsufficientFunds"
    ELSE "Ok"

stake_dbc(v, amount) ==
    LET e == StakeError(v, amount) IN
    IF e # "Ok"
    THEN /\ result' = Err("stake_dbc", e)
         /\ UNCHANGED <<csVars, accVars, tokVars, trVars, slash_call>>
    ELSE /\ stake_account' = stake_account @@
                (<<v, clock>> :> [validator |-> v,
                                  amount |-> amount,
                                  staked_at |-> clock,
                                  unlock_at |-> clock + STAKING_CONFIG.lock_seconds,
                                  is_frozen |-> FALSE])
         /\ token_account' = [token_account EXCEPT ![v] = @ - amount,
                                                   !["stake_escrow"] = @ + amount]
         /\ treasury' = [treasury EXCEPT !.total_staked =
                            unwrap_or(checked_add_u64(@, amount), @)]
         /\ result' = Ok("stake_dbc")
         /\ UNCHANGED <<case_study, validator_stake, validator_reputation,
                        accVars, tokVars, distribution_tracker, treasury_reputation,
                        clock, slash_call>>

SlashError(k, governance_authority, percentage) ==
    IF ~treasury.is_initialized \/ k \notin DOMAIN stake_account
    THEN "AccountNotInitialized"
    ELSE IF governance_authority # treasury.governance_authority THEN "ConstraintRaw"
    ELSE IF ~(percentage > 0 /\ percentage <= 100) THEN "InvalidSlashPercentage"
    ELSE "Ok"

\* The StakeSlashed event is kept in the log of slash computations, with the
\* stake's amount before and after.
slash_stake(k, governance_authority, percentage) ==
    LET e == SlashError(k, governance_authority, percentage) IN
    IF e # "Ok"
    THEN /\ result' = Err("slash_stake", e)
         /\ UNCHANGED <<csVars, accVars, tokVars, trVars, slash_call>>
    ELSE LET slash_amount == slash_amount_of(stake_account[k].amount, percentage)
             burn_amount == slash_amount \div 2
             treasury_amount == slash_amount - burn_amount
         IN
         /\ stake_account' = [stake_account EXCEPT ![k].amount =
                                 saturating_sub(@, slash_amount)]
         /\ treasury' = [treasury EXCEPT !.total_staked =
                            saturating_sub(@, slash_amount)]
         /\ slash_call' = Append(slash_call,
                [fn |-> "slash_stake",
                 amount |-> stake_account[k].amount,
                 percentage |-> percentage,
                 slash_amount |-> slash_amount,
                 burn_amount |-> burn_amount,
                 treasury_amount |-> treasury_amount,
                 remaining |-> saturating_sub(stake_account[k].amount, slash_amount)])
         /\ result' = Ok("slash_stake")
         /\ UNCHANGED <<csVars, accVars, tokVars, distribution_tracker,
                        treasury_reputation, clock>>

\* unstake_dbc on the StakeAccount at address k, signed by `validator`, whose
\* token account receives the tokens.  No constraint ties the stake account
\* to the signer.  The account is closed on success.
UnstakeError(k) ==
    IF ~treasury.is_initialized \/ k \notin DOMAIN stake_account
    THEN "AccountNotInitialized"
    ELSE IF stake_account[k].is_frozen THEN "StakeFrozen"
    ELSE IF ~(clock >= stake_account[k].unlock_at) THEN "StakeLocked"
    ELSE IF token_account["stake_escrow"] < stake_account[k].amount
         THEN "InsufficientFunds"
    ELSE "Ok"

\* unstake_dbc without the update of total_staked.
unstake_dbc_keeps_total(k, validator) ==
    LET e == UnstakeError(k) IN
    IF e # "Ok"
    THEN /\ result' = Err("unstake_dbc", e)
         /\ UNCHANGED <<csVars, accVars, tokVars, trVars, slash_call>>
    ELSE LET amount == stake_account[k].amount IN
         /\ token_account' = [token_account EXCEPT
                                 !["stake_escrow"] = @ - amount,
                                 ![validator] = @ + amount]
         /\ treasury' = treasury
         /\ stake_account' = [j \in DOMAIN stake_account \ {k} |-> stake_account[j]]
         /\ result' = Ok("unstake_dbc")
         /\ UNCHANGED <<case_study, validator_stake, validator_reputation,
                        accVars, tokVars, distribution_tracker, treasury_reputation,
                        clock, slash_call>>

unstake_dbc(k, validator) ==
    LET e == UnstakeError(k) IN
    IF e # "Ok"
    THEN /\ result' = Err("unstake_dbc", e)
         /\ UNCHANGED <<csVars, accVars, tokVars, trVars, slash_call>>
    ELSE LET amount == stake_account[k].amount IN
         /\ token_account' = [token_account EXCEPT
                                 !["stake_escrow"] = @ - amount,
                                 ![validator] = @ + amount]
         /\ treasury' = [treasury EXCEPT !.total_staked = saturating_sub(@, amount)]
         /\ stake_account' = [j \in DOMAIN stake_account \ {k} |-> stake_account[j]]
         /\ result' = Ok("unstake_dbc")
         /\ UNCHANGED <<case_study, validator_stake, validator_reputation,
                        accVars, tokVars, distribution_tracker, treasury_reputation,
                        clock, slash_call>>

emergency_pause(governance_authority) ==
    LET e == GovernanceError(governance_authority) IN
    IF e # "Ok"
    THEN /\ result' = Err("emergency_pause", e)
         /\ UNCHANGED <<csVars, accVars, tokVars, trVars, slash_call>>
    ELSE /\ treasury' = [treasury EXCEPT !.config.paused = TRUE]
         /\ result' = Ok("emergency_pause")
         /\ UNCHANGED <<csVars, accVars, tokVars, distribution_tracker,
                        treasury_reputation, stake_account, clock, slash_call>>

emergency_resume(governance_authority) ==
    LET e == GovernanceError(governance_authority) IN
    IF e # "Ok"
    THEN /\ result' = Err("emergency_resume", e)
         /\ UNCHANGED <<csVars, accVars, tokVars, trVars, slash_call>>
    ELSE /\ treasury' = [treasury EXCEPT !.config.paused = FALSE]
         /\ result' = Ok("emergency_resume")
         /\ UNCHANGED <<csVars, accVars, tokVars, distribution_tracker,
                        treasury_reputation, stake_account, clock, slash_call>>

\* A caller of the common library applies calculate_slash and keeps what it
\* returned.
calculate_slash_call(amount, percentage) ==
    LET r == calculate_slash(amount, percentage) IN
    /\ slash_call' = Append(slash_call,
           [fn |-> "calculate_slash",
            amount |-> amount,
            percentage |-> percentage,
            slash_amount |-> r[1],
            burn_amount |-> r[2],
            treasury_amount |-> r[1] - r[2],
            remaining |-> r[3]])
    /\ result' = Ok("calculate_slash")
    /\ UNCHANGED <<csVars, accVars, tokVars, trVars>>

-----------------------------------------------------------------------------
(* Token program: configuration and validator stakes *)

MINIMUM_STAKE == 10000000 \div DBC_MULTIPLIER

\* The amounts of the configuration are counted in whole DBC: 10^decimals is
\* divided by DBC_MULTIPLIER before it is multiplied (decimals is at least 6).
InitializeTokenError(decimals) ==
    IF token_config.is_initialized THEN "AccountAlreadyInUse"
    ELSE IF ~(decimals >= 6 /\ decimals <= 9) THEN "InvalidDecimals"
    ELSE "Ok"

initialize_token(governance_authority, decimals) ==
    LET e == InitializeTokenError(decimals) IN
    /\ result' = Err("initialize_token", e)
    /\ IF e = "Ok"
       THEN token_config' =
               [is_initialized |-> TRUE,
                governance_authority |-> governance_authority,
                total_minted |-> 0,
                total_burned |-> 0,
                max_supply |-> 1000000 * (10 ^ decimals \div DBC_MULTIPLIER),
                reward_pool_allocation |-> 400000 * (10 ^ decimals \div DBC_MULTIPLIER),
                treasury_allocation |-> 300000 * (10 ^ decimals \div DBC_MULTIPLIER),
                validator_allocation |-> 200000 * (10 ^ decimals \div DBC_MULTIPLIER),
                team_allocation |-> 100000 * (10 ^ decimals \div DBC_MULTIPLIER),
                initialized |-> TRUE]
       ELSE UNCHANGED token_config
    /\ UNCHANGED <<csVars, accVars, trVars, token_stake, slash_call>>

\* The stake account is created at an address k of the caller's choice.
StakeForValidationError(k, v, amount) ==
    IF token_stake[k].is_initialized THEN "AccountAlreadyInUse"
    ELSE IF ~(amount >= MINIMUM_STAKE) THEN "InsufficientStake"
    ELSE IF token_account[v] < amount THEN "InsufficientFunds"
    ELSE "Ok"

stake_for_validation(k, v, amount, shield_amount) ==
    LET e == StakeForValidationError(k, v, amount) IN
    /\ result' = Err("stake_for_validation", e)
    /\ IF e = "Ok"
       THEN /\ token_stake' = [token_stake EXCEPT ![k] =
                   [is_initialized |-> TRUE,
                    validator |-> v,
                    amount |-> amount,
                    staked_at |-> clock,
                    is_shielded |-> shield_amount,
                    unlock_at |-> 0,
                    is_frozen |-> FALSE]]
            /\ token_account' = [token_account EXCEPT
                                    ![v] = @ - amount,
                                    !["stake_escrow"] = @ + amount]
       ELSE UNCHANGED <<token_stake, token_account>>
    /\ UNCHANGED <<case_study, validator_stake, validator_reputation,
                   accVars, trVars, token_config, slash_call>>

\* The handler's two checks, then the token program's checks of the transfer
\* out of the escrow (its balance, then its owner's signature).
UnstakeTokensError_thaws_at_unlock(k, escrow_authority) ==
    IF ~token_stake[k].is_initialized THEN "AccountNotInitialized"
    ELSE IF token_stake[k].is_frozen /\ clock < token_stake[k].unlock_at
         THEN "StakeFrozen"
    ELSE IF token_account["stake_escrow"] < token_stake[k].amount
         THEN "InsufficientFunds"
    ELSE IF escrow_authority # EscrowAuthority THEN "OwnerMismatch"
    ELSE "Ok"

UnstakeTokensError(k, escrow_authority) ==
    IF ~token_stake[k].is_initialized THEN "AccountNotInitialized"
    ELSE IF ~(~token_stake[k].is_frozen) THEN "StakeFrozen"
    ELSE IF ~(token_stake[k].unlock_at = 0 \/ clock >= token_stake[k].unlock_at)
         THEN "StakeTimelocked"
    ELSE IF token_account["stake_escrow"] < token_stake[k].amount
         THEN "InsufficientFunds"
    ELSE IF escrow_authority # EscrowAuthority THEN "OwnerMismatch"
    ELSE "Ok"

\* On success the stake account is closed (close = validator).
unstake_tokens(k, validator, escrow_authority) ==
    LET e == UnstakeTokensError(k, escrow_authority) IN
    /\ result' = Err("unstake_tokens", e)
    /\ IF e = "Ok"
       THEN /\ token_account' = [token_account EXCEPT
                                    !["stake_escrow"] = @ - token_stake[k].amount,
                                    ![validator] = @ + token_stake[k].amount]
            /\ token_stake' = [token_stake EXCEPT ![k] = NoAccount]
       ELSE UNCHANGED <<token_stake, token_account>>
    /\ UNCHANGED <<case_study, validator_stake, validator_reputation,
                   accVars, trVars, token_config, slash_call>>

\* (amount as u128 * slash_percentage as u128 / 100) as u64: the division is
\* done in u128, so the quotient is exact; it is computed here without
\* forming the product.
token_slash_amount(amount, slash_percentage) ==
    (amount \div 100) * slash_percentage
        + ((amount % 100) * slash_percentage) \div 100

\* The token program's slash_stake.  Any signer is accepted as the
\* governance authority; the escrow's owner signs the burn and the transfer.
TokenSlashError(k, escrow_authority, slash_percentage) ==
    IF ~token_config.is_initialized \/ ~token_stake[k].is_initialized
    THEN "AccountNotInitialized"
    ELSE IF ~(slash_percentage > 0 /\ slash_percentage <= 100)
         THEN "InvalidSlashPercentage"
    ELSE IF token_account["stake_escrow"]
               < token_slash_amount(token_stake[k].amount, slash_percentage)
         THEN "InsufficientFunds"
    ELSE IF escrow_authority # EscrowAuthority THEN "OwnerMismatch"
    ELSE IF checked_add_u64(token_config.total_burned,
               token_slash_amount(token_stake[k].amount, slash_percentage) \div 2) = None
         THEN "OverflowError"
    ELSE "Ok"

token_slash_stake(k, escrow_authority, slash_percentage) ==
    LET e == TokenSlashError(k, escrow_authority, slash_percentage)
        slash_amount == token_slash_amount(token_stake[k].amount, slash_percentage)
        burn_amount == slash_amount \div 2
        treasury_amount == slash_amount - burn_amount
    IN
    /\ result' = Err("slash_stake", e)
    /\ IF e = "Ok"
       THEN /\ token_account' = [token_account EXCEPT
                                    !["stake_escrow"] = @ - slash_amount,
                                    !["treasury"] = @ + treasury_amount]
            /\ token_config' = [token_config EXCEPT !.total_burned = @ + burn_amount]
            /\ token_stake' = [token_stake EXCEPT ![k].amount = @ - slash_amount]
       ELSE UNCHANGED <<token_stake, token_config, token_account>>
    /\ UNCHANGED <<case_study, validator_stake, validator_reputation,
                   accVars, trVars, slash_call>>

\* Any signer is accepted as the governance authority.
FreezeStakeError(k, freeze_days, reason_len) ==
    IF ~token_stake[k].is_initialized THEN "AccountNotInitialized"
    ELSE IF ~(freeze_days > 0 /\ freeze_days <= 90) THEN "InvalidFreezePeriod"
    ELSE IF ~(reason_len >= 10 /\ reason_len <= 200) THEN "InvalidReason"
    ELSE "Ok"

freeze_stake(k, governance_authority, freeze_days, reason_len) ==
    LET e == FreezeStakeError(k, freeze_days, reason_len) IN
    /\ result' = Err("freeze_stake", e)
    /\ IF e = "Ok"
       THEN token_stake' = [token_stake EXCEPT
                              ![k].is_frozen = TRUE,
                              ![k].unlock_at = clock + freeze_days * 86400]
       ELSE UNCHANGED token_stake
    /\ UNCHANGED <<csVars, accVars, trVars, token_config, slash_call>>

\* ValidatorTier::from_validations of the common library.
from_validations(total_validations) ==
    IF total_validations \in 0 .. 24 THEN "Bronze"
    ELSE IF total_validations \in 25 .. 99 THEN "Silver"
    ELSE IF total_validations \in 100 .. 499 THEN "Gold"
    ELSE "Platinum"

\* The discriminants of ValidatorTier.
TierRank == [Bronze |-> 0, Silver |-> 1, Gold |-> 2, Platinum |-> 3]

\* A caller applies the treasury's calculate_tier and keeps what it returned.
calculate_tier_call(total_validations, accuracy_rate) ==
    /\ slash_call' = Append(slash_call,
           [fn |-> "calculate_tier",
            total_validations |-> total_validations,
            accuracy_rate |-> accuracy_rate,
            tier |-> calculate_tier(total_validations, accuracy_rate)])
    /\ result' = Ok("calculate_tier")
    /\ UNCHANGED <<csVars, accVars, tokVars, trVars>>

\* A caller applies from_validations and keeps what it returned.
from_validations_call(total_validations) ==
    /\ slash_call' = Append(slash_call,
           [fn |-> "from_validations",
            total_validations |-> total_validations,
            accuracy_rate |-> 0,
            tier |-> from_validations(total_validations)])
    /\ result' = Ok("from_validations")
    /\ UNCHANGED <<csVars, accVars, tokVars, trVars>>

-----------------------------------------------------------------------------
(* Case study program: slashing *)

\* Option<PendingSlash>: None, and Some(PendingSlash { .. }).
NoPendingSlash == [is_some |-> FALSE]

SomePendingSlash(percentage, evidence_hash, requested_at) ==
    [is_some |-> TRUE, percentage |-> percentage, evidence_hash |-> evidence_hash,
     requested_at |-> requested_at]

\* The GovernanceConfig account the instructions are given.
governance_config == [governance_authority |-> Governance]

DBC_TREASURY_PROGRAM_ID == "11111111111111111111111111111111"

saturating_sub_u8(a, b) == IF a < b THEN 0 ELSE a - b

\* One ValidatorStake account rewritten.
StakeRewritten(stake, new_stake) ==
    (validator_stake (-) SetToBag({stake})) (+) SetToBag({new_stake})

\* The checks of request_slash_validator with the stake looked at before the
\* percentage.
RequestSlashError_slashed_first(stake, governance_authority, slash_percentage) ==
    IF ~BagIn(stake, validator_stake) THEN "AccountNotInitialized"
    ELSE IF governance_authority # governance_config.governance_authority
         THEN "ConstraintRaw"
    ELSE IF ~(~stake.is_slashed) THEN "AlreadySlashed"
    ELSE IF ~(slash_percentage > 0 /\ slash_percentage <= 100)
         THEN "InvalidSlashPercentage"
    ELSE "Ok"

\* request_slash_validator on the ValidatorStake account `stake`; the
\* reputation account is the PDA of the stake's validator.
RequestSlashError(stake, governance_authority, slash_percentage) ==
    IF ~BagIn(stake, validator_stake) THEN "AccountNotInitialized"
    ELSE IF governance_authority # governance_config.governance_authority
         THEN "ConstraintRaw"
    ELSE IF ~(slash_percentage > 0 /\ slash_percentage <= 100)
         THEN "InvalidSlashPercentage"
    ELSE IF ~(~stake.is_slashed) THEN "AlreadySlashed"
    ELSE "Ok"

request_slash_validator(stake, governance_authority, slash_percentage, evidence_hash) ==
    LET e == RequestSlashError(stake, governance_authority, slash_percentage)
    IN  /\ result' = Err("request_slash_validator", e)
        /\ IF e = "Ok"
           THEN validator_reputation' =
                    [validator_reputation EXCEPT ![stake.validator].pending_slash =
                        SomePendingSlash(slash_percentage, evidence_hash, clock)]
           ELSE UNCHANGED validator_reputation
        /\ UNCHANGED <<case_study, validator_stake, token_account>>
        /\ UNCHANGED <<accVars, tokVars, trVars, slash_call>>

\* The checks of confirm_slash without the one on pending_slash.
ConfirmSlashError_no_pending_check(stake, treasury_program, treasury_signer) ==
    IF ~BagIn(stake, validator_stake) THEN "AccountNotInitialized"
    ELSE IF treasury_signer # treasury_program THEN "ConstraintRaw"
    ELSE "Ok"

\* confirm_slash: treasury_program is an unchecked account the caller names,
\* and the signer must have the same key.
ConfirmSlashError(stake, treasury_program, treasury_signer) ==
    IF ~BagIn(stake, validator_stake) THEN "AccountNotInitialized"
    ELSE IF treasury_signer # treasury_program THEN "ConstraintRaw"
    ELSE IF ~validator_reputation[stake.validator].pending_slash.is_some
         THEN "NoPendingSlash"
    ELSE IF checked_add_u32(validator_reputation[stake.validator].total_slashes, 1) = None
         THEN "OverflowError"
    ELSE "Ok"

\* The reputation after a confirmed slash.
reputation_after_slash_no_floor(reputation) ==
    [reputation EXCEPT
        !.total_slashes = checked_add_u32(@, 1),
        !.reputation_score = IF @ < 20 THEN @ ELSE @ - 20,
        !.pending_slash = NoPendingSlash]

reputation_after_slash(reputation) ==
    [reputation EXCEPT
        !.total_slashes = checked_add_u32(@, 1),
        !.reputation_score = saturating_sub_u8(@, 20),
        !.pending_slash = NoPendingSlash]

confirm_slash(stake, treasury_program, treasury_signer, slash_amount) ==
    LET e == ConfirmSlashError(stake, treasury_program, treasury_signer)
    IN  /\ result' = Err("confirm_slash", e)
        /\ IF e = "Ok"
           THEN /\ validator_stake' = StakeRewritten(stake,
                       [stake EXCEPT !.is_slashed = TRUE,
                                     !.slashed_amount = slash_amount])
                /\ validator_reputation' =
                       [validator_reputation EXCEPT ![stake.validator] =
                           reputation_after_slash(@)]
           ELSE UNCHANGED <<validator_stake, validator_reputation>>
        /\ UNCHANGED <<case_study, token_account>>
        /\ UNCHANGED <<accVars, tokVars, trVars, slash_call>>

-----------------------------------------------------------------------------
(* Initial states *)

\* The reputation accounts exist before the first vote; their tiers are any.
ReputationRecords ==
    [validator : {DefaultPubkey}, total_validations : {0},
     accurate_validations : {0}, total_slashes : {0}, reputation_score : {50},
     tier : Tiers, pending_slash : {NoPendingSlash}]

\* Token balances at the start: each validator can pay InitialStakes minimum
\* stakes, the treasury token account is pre-funded.
FundedBalances ==
    [o \in TokenOwners |->
        IF o \in Validators THEN InitialStakes * MINIMUM_VALIDATOR_STAKE
        ELSE IF o = "treasury" THEN TreasuryFunds
        ELSE 0]

InitCaseStudy(tiers, balances) ==
    /\ case_study = [s \in CaseStudyKeys |-> NoAccount]
    /\ validator_stake = EmptyBag
    /\ validator_reputation \in
           {f \in [Validators -> ReputationRecords] :
                \A v \in Validators : f[v].tier \in tiers}
    /\ token_account = balances

InitAccess == access_request = [k \in AccessRequestKeys |-> NoAccount]

InitIdle ==
    /\ treasury = NoAccount
    /\ distribution_tracker = [k \in Days \X Categories |-> 0]
    /\ treasury_reputation = [v \in Validators |-> NoAccount]
    /\ stake_account = <<>>
    /\ clock = 0
    /\ token_config = NoAccount
    /\ token_stake = [k \in TokenStakeKeys |-> NoAccount]
    /\ slash_call = <<>>
    /\ result = Ok("none")

Init == InitCaseStudy(Tiers, FundedBalances) /\ InitAccess /\ InitIdle

-----------------------------------------------------------------------------
(* The consensus ledger: one submission, its votes, the risk agent's pause *)

\* Inputs of submit_encrypted_case_study: one valid call and, for each check
\* of the handler, a call that fails it.
ValidSubmit ==
    [cid_ok |-> TRUE, treatment_category |-> 2, duration_days |-> 365,
     compression_ratio |-> 2, proof_len |-> 1, light_len |-> 1]

SubmitInputs ==
    {ValidSubmit,
     [ValidSubmit EXCEPT !.cid_ok = FALSE],
     [ValidSubmit EXCEPT !.treatment_category = 3],
     [ValidSubmit EXCEPT !.duration_days = 0],
     [ValidSubmit EXCEPT !.duration_days = 366],
     [ValidSubmit EXCEPT !.compression_ratio = 1],
     [ValidSubmit EXCEPT !.compression_ratio = 101],
     [ValidSubmit EXCEPT !.proof_len = 0],
     [ValidSubmit EXCEPT !.light_len = 0]}

SubmitAny(keys) ==
    \E s \in keys, submitter \in {"alice"}, i \in SubmitInputs :
        submit_encrypted_case_study(s, submitter, i.cid_ok, i.treatment_category,
                                    i.duration_days, i.compression_ratio,
                                    i.proof_len, i.light_len)

\* Inputs of validator_prove_integrity besides the voter, the submission and
\* the kind of vote: one valid call and a failing call per input check.
ValidVote ==
    [proof_len |-> 1, stake_amount |-> MINIMUM_VALIDATOR_STAKE,
     noir_circuit_id |-> "noir"]

VoteInputs ==
    {ValidVote,
     [ValidVote EXCEPT !.proof_len = 0],
     [ValidVote EXCEPT !.stake_amount = MINIMUM_VALIDATOR_STAKE - 1],
     [ValidVote EXCEPT !.noir_circuit_id = "0000"],
     [ValidVote EXCEPT !.noir_circuit_id = "aztc"]}

VoteAny(keys, types) ==
    \E v \in Validators, s \in keys, validation_type \in types, i \in VoteInputs :
        validator_prove_integrity(v, s, validation_type, i.proof_len,
                                  i.stake_amount, i.noir_circuit_id)

PauseAny(keys) ==
    \E s \in keys, agent_authority \in {"risk_agent_pda", "v1"},
       risk_score \in {74, 75} :
        agent_pause_validation(s, agent_authority, risk_score)

Next ==
    \/ SubmitAny({"cs1"})
    \/ VoteAny({"cs1"}, ValidationTypes)
    \/ PauseAny({"cs1"})

Spec == Init /\ [][Next]_vars

-----------------------------------------------------------------------------
(* Properties of the consensus ledger *)

Terminal == {"Approved", "Rejected"}

\* The ValidatorStake accounts a step creates.
IsNewStake(r) == CopiesIn(r, validator_stake') > CopiesIn(r, validator_stake)

\* The weight function as the specification states it.
TierWeights == [Bronze |-> 1, Silver |-> 2, Gold |-> 3, Platinum |-> 5]

\* C1: once a submission is Approved or Rejected, no step changes its status.
C1_ConsensusMonotone ==
    [][\A s \in CaseStudyKeys :
          (case_study[s] # NoAccount /\ case_study[s].validation_status \in Terminal)
          => case_study'[s].validation_status = case_study[s].validation_status]_vars

\* C2: for every (validator, submission) pair at most one vote record exists.
C2_NoDoubleVoting ==
    \A v \in Validators, s \in CaseStudyKeys : VoteRecords(v, s) <= 1

C4_ConsensusPolicy ==
    /\ [][\A r \in BagToSet(validator_stake') :
             IsNewStake(r) =>
               LET old == case_study[r.case_study]
                   new == case_study'[r.case_study]
                   T == new.approval_count + new.rejection_count
               IN  new.validation_status =
                       IF T >= 5 /\ new.reputation_score >= 75 THEN "Approved"
                       ELSE IF T >= 5 /\ new.reputation_score < 25 THEN "Rejected"
                       ELSE old.validation_status]_vars
    /\ [](\A s \in CaseStudyKeys :
             (/\ VoteRecordsOn(s) = 5
              /\ \A r \in StakesOn(s) :
                    r.validation_type = "Approve" /\ r.reputation_weight = 1)
             => /\ case_study[s].approval_count = 5
                /\ case_study[s].rejection_count = 0
                /\ case_study[s].reputation_score = 100
                /\ case_study[s].validation_status = "Approved")

\* C4 witness: five weight-1 Approve votes have approved a submission, and a
\* sixth vote is counted while the score is between the thresholds.
C4_Witness ==
    /\ case_study["cs1"] # NoAccount
    /\ VoteRecordsOn("cs1") = 5
    /\ \A r \in StakesOn("cs1") :
          r.validation_type = "Approve" /\ r.reputation_weight = 1
    /\ case_study["cs1"].validation_status = "Approved"

\* C5: a submission is Approved or Rejected only when at least 5 vote records
\* exist for it.
C5_FiveValidators ==
    \A s \in CaseStudyKeys :
        (case_study[s] # NoAccount /\ case_study[s].validation_status \in Terminal)
        => VoteRecordsOn(s) >= 5

-----------------------------------------------------------------------------
(* The threshold access controller: submissions, stakes on them, one request *)

RequestAny ==
    \E k \in AccessRequestKeys, s \in CaseStudyKeys, requester \in {"bob"},
       i \in {<<50, 1, 0>>, <<49, 1, 0>>, <<501, 1, 0>>, <<500, 0, 2>>,
              <<500, 1, 3>>} :
        request_committee_access(k, s, requester, i[1], i[2], i[3])

ApproveAny ==
    \E k \in AccessRequestKeys, v \in Validators,
       stake \in BagToSet(validator_stake), share_proof_len \in {0, 1} :
        approve_access_request(k, v, stake, share_proof_len)

InitAccessSpec == InitCaseStudy({"Bronze"}, FundedBalances) /\ InitAccess /\ InitIdle

NextAccess ==
    \/ SubmitAny(CaseStudyKeys)
    \/ VoteAny(CaseStudyKeys, {"FurtherReview"})
    \/ RequestAny
    \/ ApproveAny

SpecAccess == InitAccessSpec /\ [][NextAccess]_vars

\* C10: with requiredApprovals = K = 3 a request stays Pending after each of
\* the first two valid approvals, becomes Granted on exactly the third, and
\* every approval attempt after that fails with AccessAlreadyProcessed and
\* leaves the request as it is.
C10_ThresholdAccess ==
    /\ [](\A k \in AccessRequestKeys :
             access_request[k] # NoAccount =>
                /\ access_request[k].required_approvals = 3
                /\ access_request[k].status = "Pending"
                   => access_request[k].approvals \in {0, 1, 2}
                /\ access_request[k].status = "Granted"
                   => access_request[k].approvals = 3)
    /\ [][\A k \in AccessRequestKeys :
             access_request[k] # NoAccount =>
                /\ (result'.op = "approve_access_request" /\ result'.err = "Ok")
                   => /\ access_request[k].status = "Pending"
                      /\ access_request'[k].approvals = access_request[k].approvals + 1
                      /\ access_request'[k].status =
                            IF access_request'[k].approvals = 3 THEN "Granted"
                            ELSE "Pending"
                /\ access_request[k].status = "Granted"
                   => /\ access_request'[k] = access_request[k]
                      /\ result'.op = "approve_access_request"
                         => result'.err = "AccessAlreadyProcessed"]_vars

\* C10 witness: the request was granted by its third approval and a fourth
\* approval attempt has just been refused.
C10_Witness ==
    /\ access_request["ar1"] # NoAccount
    /\ access_request["ar1"].status = "Granted"
    /\ access_request["ar1"].approvals = 3
    /\ result = Err("approve_access_request", "AccessAlreadyProcessed")

-----------------------------------------------------------------------------
(* The reward engine: the treasury, its daily trackers, governance, the clock *)

Recipients == {"alice"}

\* Requested amounts: less than the reward computed, and more than any
\* reward.  Scores and rates: inside the range and outside.
RewardAmounts == {60, U64_MAX}
QualityScores == {0, 100, 101}
ValidationCounts == {0, 1, 2}
AccuracyRates == {80, 101}

InitializeAny ==
    \E c \in ConfigChoices : initialize_treasury(Governance, c)

RewardCaseStudyAny ==
    \E r \in Recipients, a \in RewardAmounts, q \in QualityScores :
        reward_case_study(r, a, q)

RewardValidatorAny ==
    \E n \in ValidationCounts, a \in AccuracyRates :
        reward_validator("v1", n, a)

UpdateConfigAny ==
    \E g \in {Governance, "v1"}, c \in ConfigChoices : update_config(g, c)

InitTreasurySpec == InitCaseStudy({"Bronze"}, FundedBalances) /\ InitAccess /\ InitIdle

NextTreasury ==
    \/ InitializeAny
    \/ RewardCaseStudyAny
    \/ RewardValidatorAny
    \/ UpdateConfigAny
    \/ Tick

SpecTreasury == InitTreasurySpec /\ [][NextTreasury]_vars

-----------------------------------------------------------------------------
(* Properties of the reward engine *)

CapOf(category) ==
    IF category = "CaseStudy" THEN treasury.config.max_daily_case_study_rewards
    ELSE treasury.config.max_daily_validation_rewards

\* C6: after a successful reward_case_study or reward_validator, whatever the
\* day and the earlier distributions, the tracker of that day and category
\* holds no more than the category's daily cap.
C6_CapAfterReward ==
    /\ result = Ok("reward_case_study")
          => distribution_tracker[<<Today, "CaseStudy">>] <= CapOf("CaseStudy")
    /\ result = Ok("reward_validator")
          => distribution_tracker[<<Today, "Validation">>] <= CapOf("Validation")

\* A reward succeeded on the second day, after distributions of the first
\* day, and filled the day's tracker to 10 DBC below its cap of 120.
C6_Witness ==
    /\ result = Ok("reward_case_study")
    /\ Today = 1
    /\ distribution_tracker[<<0, "CaseStudy">>] > 0
    /\ CapOf("CaseStudy") = 120
    /\ distribution_tracker[<<1, "CaseStudy">>] = 110

\* The reward the specification computes: the base, plus the bonus of
\* score percent of it, at most the maximum, at most what was asked for.
SpecCaseStudyReward(amount, quality_score) ==
    Min(Min(50 + (50 * quality_score) \div 100, 100), amount)

SpecValidatorReward(validation_count, accuracy_rate) ==
    Min(25 * validation_count + (25 * validation_count * accuracy_rate) \div 100,
        50 * validation_count)

\* C7: when the day's running total plus the computed reward exceeds the
\* category's cap, the reward instruction fails with DailyLimitExceeded, and a
\* call that fails so changes nothing: no tokens move, and the trackers,
\* total_distributed, the reputation records and their tiers stay as they were.
C7_DailyLimitExceeded ==
    /\ [](treasury.is_initialized =>
            /\ \A a \in RewardAmounts, q \in QualityScores :
                 (q <= 100 /\ distribution_tracker[<<Today, "CaseStudy">>]
                                + SpecCaseStudyReward(a, q) > CapOf("CaseStudy"))
                    => RewardCaseStudyError(a, q) = "DailyLimitExceeded"
            /\ \A n \in ValidationCounts, a \in AccuracyRates :
                 (a <= 100 /\ distribution_tracker[<<Today, "Validation">>]
                                + SpecValidatorReward(n, a) > CapOf("Validation"))
                    => RewardValidatorError(n, a) = "DailyLimitExceeded")
    /\ [][result'.err = "DailyLimitExceeded"
            => /\ result'.op \in {"reward_case_study", "reward_validator"}
               /\ UNCHANGED <<token_account, distribution_tracker, treasury,
                              treasury_reputation>>]_vars

\* A reward was refused for the daily limit while the treasury still held
\* enough tokens to pay it and the day's tracker was not empty.
C7_Witness ==
    /\ result = Err("reward_validator", "DailyLimitExceeded")
    /\ distribution_tracker[<<Today, "Validation">>] > 0
    /\ token_account["treasury"] >= 100
    /\ treasury_reputation["v1"].is_initialized

\* C8 as stated: in every reachable state each tracker holds no more than the
\* cap its category is configured with now.
C8_TrackerWithinCurrentCap ==
    treasury.is_initialized =>
        \A k \in DOMAIN distribution_tracker : distribution_tracker[k] <= CapOf(k[2])

\* C8 amended: a step that does not lower a category's cap keeps each of the
\* category's trackers within the cap if it was within it; update_config
\* changes no tracker, so lowering a cap can leave a tracker above it.
C8_CapPreserved ==
    [][(treasury.is_initialized /\ treasury'.is_initialized) =>
         /\ \A k \in DOMAIN distribution_tracker :
              (/\ distribution_tracker[k] <= CapOf(k[2])
               /\ CapOf(k[2])' >= CapOf(k[2]))
                 => distribution_tracker'[k] <= CapOf(k[2])'
         /\ result'.op = "update_config"
              => distribution_tracker' = distribution_tracker]_vars

\* Governance lowered the case study cap below what the day had already
\* distributed.
C8_Witness ==
    /\ result = Ok("update_config")
    /\ distribution_tracker[<<Today, "CaseStudy">>] > CapOf("CaseStudy")

-----------------------------------------------------------------------------
(* The slash arithmetic: stakes of any size, slashed by governance *)

\* Half of the u64 range.
HalfRange == 2 ^ (U64Bits - 1)

\* Staked amounts: below the minimum, the minimum, the amount of the
\* documented example, and amounts whose product with a percentage leaves the
\* u64 range.
StakeAmounts == {99, 100, 1000000, HalfRange, U64_MAX}
SlashPercentages == {0, 2, 40, 100, 101}

\* One validator owns as many tokens as a u64 balance can hold.
WhaleBalances == [o \in TokenOwners |-> IF o = "v1" THEN U64_MAX ELSE 0]

InitSlashSpec ==
    InitCaseStudy({"Bronze"}, WhaleBalances) /\ InitAccess /\ InitIdle

StakeAny ==
    \E v \in Validators, a \in StakeAmounts : stake_dbc(v, a)

SlashAny ==
    /\ Len(slash_call) < MaxSlashCalls
    /\ \E k \in (DOMAIN stake_account) \cup {<<"v2", 0>>},
          g \in {Governance, "v1"}, p \in SlashPercentages :
            slash_stake(k, g, p)

\* calculate_slash subtracts without a check: it is applied to the
\* percentages of 1..100 only, where the subtraction cannot underflow.
CalculateSlashAny ==
    /\ Len(slash_call) < MaxSlashCalls
    /\ \E a \in StakeAmounts, p \in SlashPercentages \cap (1 .. 100) :
            calculate_slash_call(a, p)

NextSlash ==
    \/ InitializeAny
    \/ StakeAny
    \/ SlashAny
    \/ CalculateSlashAny

SpecSlash == InitSlashSpec /\ [][NextSlash]_vars

\* floor(a * p / 100), exactly.
FloorPercent(a, p) == (a \div 100) * p + ((a % 100) * p) \div 100

\* C9: every slash computed from an amount A of the u64 range and a
\* percentage p of 1..100, by calculate_slash or by slash_stake, gives
\* slash = floor(A*p/100), burn = floor(slash/2), treasury share = slash - burn
\* and remaining = A - slash; for A = 1,000,000 and p = 40 that is 400,000,
\* 200,000, 200,000 and 600,000.
C9_SlashMath ==
    \A i \in DOMAIN slash_call :
        LET c == slash_call[i] IN
        c.percentage \in 1 .. 100 =>
            /\ c.slash_amount = FloorPercent(c.amount, c.percentage)
            /\ c.burn_amount = c.slash_amount \div 2
            /\ c.treasury_amount = c.slash_amount - c.burn_amount
            /\ c.remaining = c.amount - c.slash_amount
            /\ (c.amount = 1000000 /\ c.percentage = 40) =>
                   /\ c.slash_amount = 400000
                   /\ c.burn_amount = 200000
                   /\ c.treasury_amount = 200000
                   /\ c.remaining = 600000

-----------------------------------------------------------------------------
(* Properties of the threshold access controller *)

\* C11: an approval is accepted only from a signer who holds a stake record of
\* their own on the request's submission; an approval by a signer with no such
\* record fails with ValidatorNotAuthorized and leaves the request as it is.
C11_ApproverHoldsStake ==
    [][\A k \in AccessRequestKeys, v \in Validators,
          stake \in BagToSet(validator_stake) :
            (/\ access_request[k] # NoAccount
             /\ access_request[k].status = "Pending"
             /\ VoteRecords(v, access_request[k].case_study) = 0
             /\ approve_access_request(k, v, stake, 1))
               => /\ result'.err = "ValidatorNotAuthorized"
                  /\ access_request' = access_request]_vars

\* C12: in every state of an AccessRequest approvals is at most
\* required_approvals and the status is Granted exactly when the two are equal;
\* once the request is Granted no step changes its status or its approvals.
C12_ApprovalsBounded ==
    /\ [](\A k \in AccessRequestKeys :
             access_request[k] # NoAccount =>
                /\ access_request[k].approvals <= access_request[k].required_approvals
                /\ access_request[k].status = "Granted"
                      <=> access_request[k].approvals
                             = access_request[k].required_approvals)
    /\ [][\A k \in AccessRequestKeys :
             (access_request[k] # NoAccount /\ access_request[k].status = "Granted")
                => /\ access_request'[k].status = "Granted"
                   /\ access_request'[k].approvals = access_request[k].approvals]_vars

\* The third approval has just been accepted and granted the request.
C12_Witness ==
    /\ access_request["ar1"] # NoAccount
    /\ access_request["ar1"].status = "Granted"
    /\ access_request["ar1"].approvals = access_request["ar1"].required_approvals
    /\ result = Ok("approve_access_request")

-----------------------------------------------------------------------------
(* The reward arithmetic: case study rewards over the range of scores *)

RewardScores == {0, 50, 80, 100, 101}

RewardCaseStudyScored ==
    \E r \in Recipients, a \in RewardAmounts, q \in RewardScores :
        reward_case_study(r, a, q)

NextReward ==
    \/ InitializeAny
    \/ RewardCaseStudyScored
    \/ Tick

SpecReward == InitTreasurySpec /\ [][NextReward]_vars

\* min(base + base*s*bonusPct/10000, maximum per event) with the base of 50,
\* the bonus ceiling of 100% and the maximum of 100.
SpecQualityReward(quality_score) ==
    Min(50 + (50 * quality_score * 100) \div 10000, 100)

\* C13 as stated: a successful reward_case_study with a score s of 0..100 pays
\* the recipient exactly min(base + base*s*bonusPct/10000, maximum per event).
C13_RewardIsQualityWeighted ==
    [][\A r \in Recipients, a \in RewardAmounts, q \in RewardScores :
          (reward_case_study(r, a, q) /\ result'.err = "Ok")
             => token_account'[r] - token_account[r] = SpecQualityReward(q)]_vars

\* C13 amended: the recipient is paid exactly the smaller of that reward and
\* the amount the call asked for, and the treasury token account pays it; a
\* score of 80 with an amount of 90 or more pays 90.
C13_RewardIsCappedAtAmount ==
    [][\A r \in Recipients, a \in RewardAmounts, q \in RewardScores :
          (reward_case_study(r, a, q) /\ result'.err = "Ok")
             => /\ q <= 100
                /\ token_account'[r] - token_account[r]
                      = Min(SpecQualityReward(q), a)
                /\ token_account["treasury"] - token_account'["treasury"]
                      = Min(SpecQualityReward(q), a)
                /\ (q = 80 /\ a >= 90)
                      => token_account'[r] - token_account[r] = 90]_vars

\* The recipient has been paid 90 for a score of 80 and 60 by a call that
\* asked for 60.
C13_Witness ==
    /\ result = Ok("reward_case_study")
    /\ token_account["alice"] = 150
    /\ distribution_tracker[<<Today, "CaseStudy">>] \in {60, 90}

-----------------------------------------------------------------------------
(* Large rewards: validation counts whose bonus leaves the u64 range *)

\* A configuration with daily caps that admit rewards of tens of thousands.
HighCapConfig ==
    [DefaultTreasuryConfig EXCEPT !.max_daily_case_study_rewards = 50000,
                                  !.max_daily_validation_rewards = 50000]

\* The treasury token account holds as many tokens as a u64 balance can.
RichTreasury == [o \in TokenOwners |-> IF o = "treasury" THEN U64_MAX ELSE 0]

LargeValidationCounts == {1000, 2000}
LargeAccuracyRates == {0, 80, 100}

InitOverflowSpec ==
    InitCaseStudy({"Bronze"}, RichTreasury) /\ InitAccess /\ InitIdle

InitializeHighCap == initialize_treasury(Governance, HighCapConfig)

RewardValidatorLarge ==
    \E v \in Validators, n \in LargeValidationCounts, a \in LargeAccuracyRates :
        reward_validator(v, n, a)

NextOverflow ==
    \/ InitializeHighCap
    \/ RewardValidatorLarge
    \/ Tick

SpecOverflow == InitOverflowSpec /\ [][NextOverflow]_vars

\* C14: a treasury operation in which a monetary computation would leave the
\* u64 range aborts with an error and changes no state.  Here the computation
\* is the bonus of reward_validator, base * count * accuracy * percent, and the
\* state is the balances, the treasury, the trackers and the reputations.
C14_OverflowAborts ==
    [][\A v \in Validators, n \in LargeValidationCounts, a \in LargeAccuracyRates :
          (/\ 25 * n * a * 100 > U64_MAX
           /\ reward_validator(v, n, a))
             => /\ result'.err # "Ok"
                /\ UNCHANGED <<token_account, treasury, distribution_tracker,
                               treasury_reputation>>]_vars

-----------------------------------------------------------------------------
(* The slash coordinator: votes, slash requests and their confirmations *)

\* One valid vote per call: the stakes are what the slashes are about.
StakeVote ==
    \E v \in Validators :
        validator_prove_integrity(v, "cs1", "FurtherReview", ValidVote.proof_len, ValidVote.stake_amount, ValidVote.noir_circuit_id)

\* Slash requests: a percentage (below, inside and above 1..100) and the
\* hash of the evidence.
SlashRequests == {<<0, "e1">>, <<40, "e1">>, <<50, "e2">>, <<101, "e2">>}

RequestSlashAny ==
    \E stake \in BagToSet(validator_stake), g \in {Governance, "v1"},
       rq \in SlashRequests :
        request_slash_validator(stake, g, rq[1], rq[2])

\* The caller names the treasury program account and signs: with the program's
\* key, with its own key for both, or with its own key against the program's.
ConfirmSlashAny ==
    \E stake \in {r \in BagToSet(validator_stake) :
                    validator_reputation[r.validator].total_slashes < MaxConfirms},
       who \in {<<DBC_TREASURY_PROGRAM_ID, DBC_TREASURY_PROGRAM_ID>>,
                <<"v2", "v2">>, <<DBC_TREASURY_PROGRAM_ID, "v2">>},
       slash_amount \in {40} :
        confirm_slash(stake, who[1], who[2], slash_amount)

InitSlashingSpec ==
    InitCaseStudy({"Bronze"}, FundedBalances) /\ InitAccess /\ InitIdle

NextSlashing ==
    \/ SubmitAny({"cs1"})
    \/ StakeVote
    \/ RequestSlashAny
    \/ ConfirmSlashAny

SpecSlashing == InitSlashingSpec /\ [][NextSlashing]_vars

-----------------------------------------------------------------------------
(* Properties of the slash coordinator *)

PendingSlashOf(v) == validator_reputation[v].pending_slash

\* The signers of confirm_slash that pass the account constraint.
ConfirmSigners == {DBC_TREASURY_PROGRAM_ID, "v2"}

\* C15: confirm_slash for a validator with no pending slash fails with
\* NoPendingSlash and changes nothing.  Hence every successful confirm for a
\* validator follows a successful request_slash_validator for that validator
\* with no other successful confirm in between: a confirm finds a pending
\* slash and clears it, and only a successful request sets one.
C15_ConfirmNeedsRequest ==
    /\ [][\A stake \in BagToSet(validator_stake), who \in ConfirmSigners :
             (~PendingSlashOf(stake.validator).is_some
                 /\ confirm_slash(stake, who, who, 40))
                => /\ result'.err = "NoPendingSlash"
                   /\ UNCHANGED <<csVars, accVars, tokVars, trVars>>]_vars
    /\ [][\A v \in Validators :
             /\ (result' = Ok("confirm_slash")
                   /\ validator_reputation'[v] # validator_reputation[v])
                => (PendingSlashOf(v).is_some /\ ~PendingSlashOf(v)'.is_some)
             /\ (~PendingSlashOf(v).is_some /\ PendingSlashOf(v)'.is_some)
                => result' = Ok("request_slash_validator")]_vars

\* A validator was slashed once, and a second confirm with no new request has
\* just been refused.
C15_Witness ==
    /\ result = Err("confirm_slash", "NoPendingSlash")
    /\ \E v \in Validators :
          /\ validator_reputation[v].total_slashes = 1
          /\ ~PendingSlashOf(v).is_some
          /\ \A w \in Validators \ {v} : validator_reputation[w].total_slashes = 0
          /\ \A r \in BagToSet(validator_stake) : r.validator = v

\* The fields of a stake account and of a reputation account that
\* confirm_slash writes.
SlashedStakeFields == {"is_slashed", "slashed_amount"}

SlashedReputationFields == {"total_slashes", "reputation_score", "pending_slash"}

SameExcept(new, old, fields) ==
    /\ DOMAIN new = DOMAIN old
    /\ \A f \in DOMAIN old \ fields : new[f] = old[f]

\* C16: a successful confirm_slash sets the stake's is_slashed to true and its
\* slashed_amount to the confirmed amount, adds exactly 1 to the validator's
\* total_slashes, lowers its reputation_score by 20 but not below 0, and
\* clears pending_slash; no other field of any record changes.
C16_ConfirmEffect ==
    [][\A stake \in BagToSet(validator_stake), who \in ConfirmSigners,
          slash_amount \in {40} :
          (confirm_slash(stake, who, who, slash_amount) /\ result'.err = "Ok")
             => LET v == stake.validator
                    old == validator_reputation[v]
                    new == validator_reputation'[v]
                IN  /\ \E slashed \in BagToSet(validator_stake') :
                          /\ slashed.is_slashed = TRUE
                          /\ slashed.slashed_amount = slash_amount
                          /\ SameExcept(slashed, stake, SlashedStakeFields)
                          /\ validator_stake' (-) SetToBag({slashed})
                                = validator_stake (-) SetToBag({stake})
                    /\ new.total_slashes = old.total_slashes + 1
                    /\ new.reputation_score
                          = IF old.reputation_score >= 20
                            THEN old.reputation_score - 20 ELSE 0
                    /\ new.pending_slash = NoPendingSlash
                    /\ SameExcept(new, old, SlashedReputationFields)
                    /\ \A w \in DOMAIN validator_reputation \ {v} :
                          validator_reputation'[w] = validator_reputation[w]
                    /\ DOMAIN validator_reputation' = DOMAIN validator_reputation
                    /\ UNCHANGED <<case_study, token_account, accVars, tokVars, trVars>>]_vars

\* A third slash of one validator has been confirmed: the score went
\* 50, 30, 10 and the last penalty stopped at 0.
C16_Witness ==
    /\ result = Ok("confirm_slash")
    /\ \E v \in Validators :
          /\ validator_reputation[v].total_slashes = 3
          /\ validator_reputation[v].reputation_score = 0
          /\ ~PendingSlashOf(v).is_some

\* C17: confirm_slash succeeds only when the caller is the treasury program's
\* principal; a call signed by anyone else fails and changes no stake or
\* reputation record.
C17_OnlyTreasuryConfirms ==
    [][\A stake \in BagToSet(validator_stake),
          treasury_program \in {DBC_TREASURY_PROGRAM_ID, "v2"},
          treasury_signer \in {"v2"} :
          confirm_slash(stake, treasury_program, treasury_signer, 40)
             => /\ result'.err # "Ok"
                /\ UNCHANGED <<validator_stake, validator_reputation>>]_vars

\* C18: a validator never has more than one requested and unconfirmed slash:
\* request_slash_validator does not succeed while the validator has a
\* pending slash, so a pending slash is never replaced before its confirm.
C18_OnePendingSlash ==
    [][\A stake \in BagToSet(validator_stake), rq \in SlashRequests :
          (PendingSlashOf(stake.validator).is_some
              /\ rq[1] \in 1 .. 100
              /\ request_slash_validator(stake, Governance, rq[1], rq[2]))
             => /\ result'.err # "Ok"
                /\ PendingSlashOf(stake.validator)'
                      = PendingSlashOf(stake.validator)]_vars

-----------------------------------------------------------------------------
(* The risk agent's pause: one submission, its votes, its pause, its token *)

LinkAny ==
    \E s \in {"cs1"}, submitter \in {"alice", "v1"}, attention_token_mint \in {1, 2} :
        link_attention_token(s, submitter, attention_token_mint)

InitPauseSpec ==
    InitCaseStudy({"Bronze", "Platinum"}, FundedBalances) /\ InitAccess /\ InitIdle

NextPause ==
    \/ SubmitAny({"cs1"})
    \/ VoteAny({"cs1"}, {"Approve", "Reject"})
    \/ PauseAny({"cs1"})
    \/ LinkAny

SpecPause == InitPauseSpec /\ [][NextPause]_vars

IsPaused(s) == case_study[s] # NoAccount /\ case_study[s].is_paused

\* No step takes a paused submission back to not paused.
PausedStaysPaused ==
    [][\A s \in CaseStudyKeys :
          IsPaused(s) => (case_study'[s] # NoAccount /\ case_study'[s].is_paused)]_vars

\* A vote that passes the checks the handler makes before it looks at is_paused.
PassesInputChecks(i) ==
    /\ i.stake_amount >= MINIMUM_VALIDATOR_STAKE
    /\ i.proof_len > 0
    /\ i.noir_circuit_id # "0000"

\* C19 as stated: once paused a submission stays paused, and every vote on it
\* fails with ValidationPaused, leaving approval_count, rejection_count,
\* reputation_score, validation_status and the validator's token balance
\* unchanged.
C19_PausedVotesFailWithValidationPaused ==
    /\ PausedStaysPaused
    /\ [][\A v \in Validators, s \in {"cs1"}, validation_type \in ValidationTypes,
             i \in VoteInputs :
             (IsPaused(s)
                 /\ validator_prove_integrity(v, s, validation_type, i.proof_len,
                                              i.stake_amount, i.noir_circuit_id))
                => /\ result'.err = "ValidationPaused"
                   /\ UNCHANGED <<case_study, token_account>>]_vars

\* C19, amended: once paused a submission stays paused, and every vote on it
\* fails and leaves the tallies, the score, the status, the stake accounts
\* and the token balances unchanged; the error is ValidationPaused for a vote
\* that passes the stake, proof and circuit-id checks, which come first.
C19_PausedBlocksVotes ==
    /\ PausedStaysPaused
    /\ [][\A v \in Validators, s \in {"cs1"}, validation_type \in ValidationTypes,
             i \in VoteInputs :
             (IsPaused(s)
                 /\ validator_prove_integrity(v, s, validation_type, i.proof_len,
                                              i.stake_amount, i.noir_circuit_id))
                => /\ result'.err # "Ok"
                   /\ PassesInputChecks(i) => result'.err = "ValidationPaused"
                   /\ UNCHANGED <<case_study, validator_stake, token_account,
                                  validator_reputation>>]_vars

\* A submission that had received votes was paused, and a vote on it has just
\* been refused.
C19_Witness ==
    /\ result = Err("validator_prove_integrity", "ValidationPaused")
    /\ IsPaused("cs1")
    /\ case_study["cs1"].approval_count > 0
    /\ case_study["cs1"].validation_status = "Pending"

\* C20: agent_pause_validation succeeds only for the risk agent and a risk
\* score of at least 75; it then sets is_paused and no other field of the
\* submission; otherwise it fails with UnauthorizedAgent or
\* InsufficientRiskScore and the submission is unchanged.
C20_PauseGuard ==
    [][\A s \in {"cs1"}, agent_authority \in {"risk_agent_pda", "v1"},
          risk_score \in {74, 75} :
          (case_study[s] # NoAccount
              /\ agent_pause_validation(s, agent_authority, risk_score))
             => IF agent_authority = "risk_agent_pda" /\ risk_score >= 75
                THEN /\ result'.err = "Ok"
                     /\ case_study'[s].is_paused = TRUE
                     /\ SameExcept(case_study'[s], case_study[s], {"is_paused"})
                     /\ \A o \in CaseStudyKeys \ {s} : case_study'[o] = case_study[o]
                     /\ UNCHANGED <<validator_stake, validator_reputation,
                                    token_account, accVars, tokVars, trVars>>
                ELSE /\ result'.err = IF agent_authority # "risk_agent_pda"
                                      THEN "UnauthorizedAgent"
                                      ELSE "InsufficientRiskScore"
                     /\ UNCHANGED <<csVars, accVars, tokVars, trVars>>]_vars

\* The risk agent has just paused, at a score of exactly the threshold or
\* more, a submission that was not paused and had votes.
C20_Witness ==
    /\ result = Ok("agent_pause_validation")
    /\ IsPaused("cs1")
    /\ case_study["cs1"].approval_count > 0
    /\ case_study["cs1"].rejection_count > 0

-----------------------------------------------------------------------------
(* The treasury ledger: every treasury instruction, callers of any kind *)

\* The days the clock of the ledger can show: it advances by whole lock
\* periods.
LedgerDays == {(w * STAKING_CONFIG.lock_seconds) \div 86400 : w \in 0 .. MaxWeeks}

\* The signers of an instruction: governance, the case study program's
\* principal, a validator.
CaseStudyProgram == "case_study_program"
Callers == {Governance, CaseStudyProgram, "v1"}

\* Configurations that differ in stake_lock_days: the default 7 and 14.
LedgerConfigs ==
    {[DefaultTreasuryConfig EXCEPT !.max_daily_case_study_rewards = 120,
                                   !.max_daily_validation_rewards = 60],
     [DefaultTreasuryConfig EXCEPT !.max_daily_case_study_rewards = 120,
                                   !.max_daily_validation_rewards = 60,
                                   !.stake_lock_days = 14]}

\* reward_case_study as `payer` sends it, naming `case_study_program`: payer
\* is a Signer with no constraint and case_study_program an unchecked
\* account; neither the account constraints nor the handler read them.
RewardCaseStudyBy(payer, case_study_program, recipient, amount, quality_score) ==
    reward_case_study(recipient, amount, quality_score)

\* reward_validator as `payer` sends it: payer is a Signer with no constraint.
RewardValidatorBy(payer, v, validation_count, accuracy_rate) ==
    reward_validator(v, validation_count, accuracy_rate)

InitializeLedger ==
    \E c \in LedgerConfigs : initialize_treasury(Governance, c)

RewardCaseStudyLedger ==
    \E payer \in Callers, cp \in {CaseStudyProgram, "v1"} :
        RewardCaseStudyBy(payer, cp, "alice", 60, 100)

RewardValidatorLedger ==
    \E payer \in Callers : RewardValidatorBy(payer, "v1", 1, 80)

StakeLedger == stake_dbc("v1", STAKING_CONFIG.minimum_stake_base)

UnstakeAny ==
    \E k \in DOMAIN stake_account, validator \in Validators :
        unstake_dbc(k, validator)

SlashLedger ==
    /\ Len(slash_call) < MaxSlashCalls
    /\ \E k \in DOMAIN stake_account : slash_stake(k, Governance, 40)

UpdateConfigLedger ==
    \E g \in {Governance, "v1"}, c \in LedgerConfigs : update_config(g, c)

EmergencyPauseAny ==
    \E g \in {Governance, "v1"} : emergency_pause(g)

EmergencyResumeAny == emergency_resume(Governance)

\* The cluster's clock advances by one lock period.
WeekPasses ==
    /\ clock < MaxWeeks * STAKING_CONFIG.lock_seconds
    /\ clock' = clock + STAKING_CONFIG.lock_seconds
    /\ result' = Ok("week")
    /\ UNCHANGED <<csVars, accVars, tokVars, treasury, distribution_tracker,
                   treasury_reputation, stake_account, slash_call>>

\* Token balances of the ledger at the start: v1 can pay two minimum stakes,
\* the treasury token account two case study rewards and one validator reward.
LedgerBalances ==
    [o \in TokenOwners |->
        IF o = "v1" THEN 2 * STAKING_CONFIG.minimum_stake_base
        ELSE IF o = "treasury" THEN 2 * 60 + 45
        ELSE 0]

InitLedgerSpec ==
    /\ InitCaseStudy({"Bronze"}, LedgerBalances)
    /\ InitAccess
    /\ treasury = NoAccount
    /\ distribution_tracker = [k \in LedgerDays \X Categories |-> 0]
    /\ treasury_reputation = [v \in Validators |-> NoAccount]
    /\ stake_account = <<>>
    /\ clock = 0
    /\ token_config = NoAccount
    /\ token_stake = [k \in TokenStakeKeys |-> NoAccount]
    /\ slash_call = <<>>
    /\ result = Ok("none")

NextLedger ==
    \/ InitializeLedger
    \/ RewardCaseStudyLedger
    \/ RewardValidatorLedger
    \/ StakeLedger
    \/ UnstakeAny
    \/ SlashLedger
    \/ UpdateConfigLedger
    \/ EmergencyPauseAny
    \/ EmergencyResumeAny
    \/ WeekPasses

SpecLedger == InitLedgerSpec /\ [][NextLedger]_vars

-----------------------------------------------------------------------------
(* Properties of the treasury ledger *)

\* C21: unstake_dbc on a stake created at time t succeeds only if the stake
\* is not frozen and the clock has reached t + config.stake_lock_days days,
\* with the configuration as governance last set it; otherwise it fails with
\* StakeFrozen or StakeLocked and the stake account, the escrow and
\* total_staked are unchanged.
C21_UnstakeHonoursConfiguredLock ==
    [][\A k \in DOMAIN stake_account, validator \in Validators :
          (/\ unstake_dbc(k, validator)
           /\ ~(/\ ~stake_account[k].is_frozen
                /\ clock >= stake_account[k].staked_at
                              + treasury.config.stake_lock_days * SECONDS_PER_DAY))
             => /\ result'.err \in {"StakeFrozen", "StakeLocked"}
                /\ UNCHANGED <<stake_account, token_account>>
                /\ treasury'.total_staked = treasury.total_staked]_vars

\* C24: reward_case_study and reward_validator succeed only when the case
\* study program's principal or the governance authority invokes them; sent
\* by any other signer they fail, transfer nothing and leave
\* total_distributed and the daily trackers unchanged.
C24_RewardsNeedAuthority ==
    [][\A payer \in Callers \ {CaseStudyProgram, Governance},
          cp \in {CaseStudyProgram, "v1"} :
          (treasury.is_initialized
              /\ (\/ RewardCaseStudyBy(payer, cp, "alice", 60, 100)
                  \/ RewardValidatorBy(payer, "v1", 1, 80)))
             => /\ result'.err # "Ok"
                /\ UNCHANGED <<token_account, distribution_tracker>>
                /\ treasury'.total_distributed = treasury.total_distributed]_vars

\* C25: while the treasury is paused (config.paused, after emergency_pause
\* and before emergency_resume) no reward_case_study or reward_validator
\* succeeds: total_distributed, every daily tracker and every token balance
\* stay as they are.
C25_PausedTreasuryPaysNothing ==
    [][(/\ treasury.is_initialized
        /\ treasury.config.paused
        /\ result'.op \in {"reward_case_study", "reward_validator"})
          => /\ result'.err # "Ok"
             /\ UNCHANGED <<token_account, distribution_tracker>>
             /\ treasury'.total_distributed = treasury.total_distributed]_vars

\* C26: treasury.total_distributed never decreases, whatever treasury
\* instructions follow one another (rewards, stake, unstake, slash,
\* configuration updates, pause and resume).
C26_TotalDistributedMonotone ==
    [][treasury.is_initialized
          => /\ treasury'.is_initialized
             /\ treasury'.total_distributed >= treasury.total_distributed]_vars

\* Both kinds of reward have been paid, and a stake has then been slashed and
\* paid back.
C26_Witness ==
    /\ result = Ok("unstake_dbc")
    /\ treasury.total_distributed >= 60 + 45
    /\ Len(slash_call) > 0
    /\ treasury.config.stake_lock_days = 14

-----------------------------------------------------------------------------
(* The tier ladder: validator rewards that carry a validator up the tiers *)

\* The totals a validator is taken to: each breakpoint and one less.  The
\* accuracy rates: each breakpoint and one below.
LadderTotals == {24, 25, 99, 100, 499, 500}
TierAccuracyRates == {59, 60, 69, 70, 79, 80}

\* A reward for as many validations as take v1 to one of the totals.
RewardValidatorTier ==
    \E t \in LadderTotals, a \in TierAccuracyRates :
        /\ t > ReputationOf("v1").total_validations
        /\ reward_validator("v1", t - ReputationOf("v1").total_validations, a)

NextTier ==
    \/ InitializeHighCap
    \/ RewardValidatorTier

SpecTier == InitOverflowSpec /\ [][NextTier]_vars

\* The breakpoints as the specification states them.
SpecTierOf(total_validations, accuracy_rate) ==
    CASE total_validations >= 500 /\ accuracy_rate >= 80 -> "Platinum"
      [] ~(total_validations >= 500 /\ accuracy_rate >= 80)
            /\ total_validations >= 100 /\ accuracy_rate >= 70 -> "Gold"
      [] ~(total_validations >= 100 /\ accuracy_rate >= 70)
            /\ total_validations >= 25 /\ accuracy_rate >= 60 -> "Silver"
      [] OTHER -> "Bronze"

-----------------------------------------------------------------------------
(* The tally: one submission and votes of every kind, light and heavy *)

InitTallySpec ==
    InitCaseStudy({"Bronze", "Platinum"}, FundedBalances) /\ InitAccess /\ InitIdle

NextTally ==
    \/ SubmitAny({"cs1"})
    \/ VoteAny({"cs1"}, ValidationTypes)

SpecTally == InitTallySpec /\ [][NextTally]_vars

\* C23: every successful vote updates the voting validator's
\* ValidatorReputation: its total_validations is one higher after the vote.
C23_VoteCountsValidation ==
    [][\A v \in Validators, validation_type \in ValidationTypes :
          (/\ validator_prove_integrity(v, "cs1", validation_type,
                                        ValidVote.proof_len, ValidVote.stake_amount,
                                        ValidVote.noir_circuit_id)
           /\ result'.err = "Ok")
             => validator_reputation'[v].total_validations
                   = validator_reputation[v].total_validations + 1]_vars

\* The votes that count: the Approve and Reject vote records on s.
CountedVotes(s) == {r \in StakesOn(s) : r.validation_type \in {"Approve", "Reject"}}

\* C27: in every state of a submission reputation_score is in 0..100; when
\* approval_count + rejection_count > 0 it is
\* floor(approval_count * 100 / (approval_count + rejection_count)); it is 0
\* as long as no Approve or Reject vote has been cast.
C27_QualityScore ==
    \A s \in CaseStudyKeys :
        case_study[s] # NoAccount =>
            LET cs == case_study[s]
                total == cs.approval_count + cs.rejection_count
            IN  /\ cs.reputation_score \in 0 .. 100
                /\ total > 0 =>
                      cs.reputation_score = (cs.approval_count * 100) \div total
                /\ CountedVotes(s) = {} => cs.reputation_score = 0

\* Approvals and rejections whose quotient is not whole: the score is
\* truncated.
C27_Witness ==
    /\ case_study["cs1"] # NoAccount
    /\ case_study["cs1"].approval_count = 5
    /\ case_study["cs1"].rejection_count = 1
    /\ case_study["cs1"].reputation_score = 83

\* C29: a FurtherReview vote is recorded as a vote record and leaves the
\* submission's approval_count, rejection_count, reputation_score and
\* validation_status as they were, in every state of the submission; an
\* Approve or Reject vote never lowers either tally.
C29_NeutralVote ==
    [][\A v \in Validators, validation_type \in ValidationTypes :
          (/\ validator_prove_integrity(v, "cs1", validation_type,
                                        ValidVote.proof_len, ValidVote.stake_amount,
                                        ValidVote.noir_circuit_id)
           /\ result'.err = "Ok")
             => /\ \E r \in BagToSet(validator_stake') :
                      /\ r.validator = v
                      /\ r.case_study = "cs1"
                      /\ r.validation_type = validation_type
                      /\ CopiesIn(r, validator_stake')
                            = CopiesIn(r, validator_stake) + 1
                /\ validation_type = "FurtherReview"
                      => case_study' = case_study
                /\ case_study'["cs1"].approval_count
                      >= case_study["cs1"].approval_count
                /\ case_study'["cs1"].rejection_count
                      >= case_study["cs1"].rejection_count]_vars

\* A FurtherReview vote has just been recorded on a submission that votes had
\* already taken to Approved.
C29_Witness ==
    /\ result = Ok("validator_prove_integrity")
    /\ case_study["cs1"] # NoAccount
    /\ case_study["cs1"].validation_status = "Approved"
    /\ case_study["cs1"].rejection_count > 0
    /\ \E r \in StakesOn("cs1") : r.validation_type = "FurtherReview"
    /\ SumCopies(StakesOn("cs1"), validator_stake) = 2 * InitialStakes

-----------------------------------------------------------------------------
(* Properties of slash requests *)

\* C28 as stated: request_slash_validator on a stake that is already slashed
\* fails with AlreadySlashed, and with a percentage of 0 or above 100 it
\* fails with InvalidSlashPercentage; in both cases pending_slash is
\* unchanged.  On success pending_slash holds the requested percentage and
\* evidence hash, and the stake account is unchanged.
C28_RequestErrors ==
    [][\A stake \in BagToSet(validator_stake), rq \in SlashRequests :
          request_slash_validator(stake, Governance, rq[1], rq[2])
             => /\ stake.is_slashed => result'.err = "AlreadySlashed"
                /\ rq[1] \notin 1 .. 100 => result'.err = "InvalidSlashPercentage"
                /\ (stake.is_slashed \/ rq[1] \notin 1 .. 100)
                      => UNCHANGED validator_reputation
                /\ result'.err = "Ok"
                      => /\ PendingSlashOf(stake.validator)'.is_some
                         /\ PendingSlashOf(stake.validator)'.percentage = rq[1]
                         /\ PendingSlashOf(stake.validator)'.evidence_hash = rq[2]
                /\ UNCHANGED validator_stake]_vars

\* C28, amended: the percentage is checked first.  A percentage of 0 or above
\* 100 fails with InvalidSlashPercentage; with a percentage of 1..100 a stake
\* that is already slashed fails with AlreadySlashed; in both cases
\* pending_slash is unchanged.  Any other request by governance succeeds,
\* pending_slash then holds the requested percentage and evidence hash and
\* only that field of the validator's reputation changes; the stake account
\* is unchanged in every case.
C28_RequestChecksPercentageFirst ==
    [][\A stake \in BagToSet(validator_stake), rq \in SlashRequests :
          request_slash_validator(stake, Governance, rq[1], rq[2])
             => LET v == stake.validator IN
                /\ result'.err =
                      IF rq[1] \notin 1 .. 100 THEN "InvalidSlashPercentage"
                      ELSE IF stake.is_slashed THEN "AlreadySlashed"
                      ELSE "Ok"
                /\ result'.err # "Ok" => UNCHANGED validator_reputation
                /\ result'.err = "Ok"
                      => /\ PendingSlashOf(v)'.is_some
                         /\ PendingSlashOf(v)'.percentage = rq[1]
                         /\ PendingSlashOf(v)'.evidence_hash = rq[2]
                         /\ SameExcept(validator_reputation'[v],
                                       validator_reputation[v], {"pending_slash"})
                         /\ \A w \in Validators \ {v} :
                               validator_reputation'[w] = validator_reputation[w]
                /\ UNCHANGED validator_stake]_vars

\* A request with a percentage out of range has just been refused while one
\* stake of a validator is slashed and a further slash of that validator,
\* requested with the second evidence hash, is pending.
C28_Witness ==
    /\ result = Err("request_slash_validator", "InvalidSlashPercentage")
    /\ \E r \in BagToSet(validator_stake) :
          /\ r.is_slashed
          /\ PendingSlashOf(r.validator).is_some
          /\ PendingSlashOf(r.validator).percentage = 50
          /\ PendingSlashOf(r.validator).evidence_hash = "e2"

-----------------------------------------------------------------------------
(* Properties of large rewards *)

\* C30: a successful reward_validator pays exactly
\* min(B + B * accuracy * bonusPct / 10000, maxPerValidation * count) with
\* B = basePerValidation * count, for every validation count of the u32 range
\* and every accuracy of 0..100.
C30_ValidatorRewardFormula ==
    [][\A v \in Validators, n \in LargeValidationCounts, a \in LargeAccuracyRates :
          (reward_validator(v, n, a) /\ result'.err = "Ok")
             => LET B == REWARD_CONFIG.base_validation_base * n
                    bonus == (B * a * REWARD_CONFIG.quality_bonus_percent) \div 10000
                IN  token_account'[v] - token_account[v]
                       = Min(B + bonus, REWARD_CONFIG.max_validation_base * n)]_vars

-----------------------------------------------------------------------------
(* The tier functions: derivations at and around every breakpoint *)

CalculateTierAny ==
    /\ Len(slash_call) < MaxTierCalls
    /\ \E n \in LadderTotals, a \in TierAccuracyRates : calculate_tier_call(n, a)

FromValidationsAny ==
    /\ Len(slash_call) < MaxTierCalls
    /\ \E n \in LadderTotals : from_validations_call(n)

NextTierCalls ==
    \/ CalculateTierAny
    \/ FromValidationsAny

SpecTierCalls == InitOverflowSpec /\ [][NextTierCalls]_vars

\* C31: the tier derivation is a monotone function: of two derivations by
\* calculate_tier, the one with no fewer validations and no lower accuracy
\* gives no lower tier in the order Bronze < Silver < Gold < Platinum (equal
\* inputs give equal tiers), and likewise for from_validations in the
\* validation count.
C31_TierMonotone ==
    \A i \in DOMAIN slash_call, j \in DOMAIN slash_call :
        LET c == slash_call[i]
            d == slash_call[j]
        IN  (/\ c.fn = d.fn
             /\ c.fn \in {"calculate_tier", "from_validations"}
             /\ c.total_validations <= d.total_validations
             /\ c.accuracy_rate <= d.accuracy_rate)
               => TierRank[c.tier] <= TierRank[d.tier]

\* Two derivations by calculate_tier, the second with more validations and a
\* higher accuracy, have given Silver and then Platinum.
C31_Witness ==
    /\ Len(slash_call) = 2
    /\ slash_call[1].fn = "calculate_tier"
    /\ slash_call[2].fn = "calculate_tier"
    /\ slash_call[1].total_validations = 25
    /\ slash_call[1].accuracy_rate = 60
    /\ slash_call[1].tier = "Silver"
    /\ slash_call[2].total_validations = 500
    /\ slash_call[2].accuracy_rate = 80
    /\ slash_call[2].tier = "Platinum"

-----------------------------------------------------------------------------
(* The token program's stakes: staked, frozen, slashed and withdrawn *)

\* Frozen for a day with a reason of ten characters; a period and a reason
\* that are refused.
FreezeInputs == {<<1, 10>>, <<0, 10>>, <<1, 9>>}

\* Each validator can pay two minimum stakes.
TokenBalances ==
    [o \in TokenOwners |-> IF o \in Validators THEN 2 * MINIMUM_STAKE ELSE 0]

InitializeTokenAny ==
    \E d \in {5, 6} : initialize_token(Governance, d)

StakeForValidationAny ==
    \E k \in TokenStakeKeys, a \in {MINIMUM_STAKE - 1, MINIMUM_STAKE} :
        stake_for_validation(k, "v1", a, FALSE)

UnstakeTokensAny ==
    \E k \in TokenStakeKeys, e \in {EscrowAuthority, "v1"} :
        unstake_tokens(k, "v1", e)

TokenSlashAny ==
    \E k \in TokenStakeKeys, p \in {0, 40} :
        token_slash_stake(k, EscrowAuthority, p)

FreezeStakeAny ==
    \E k \in TokenStakeKeys, g \in {Governance, "v2"}, f \in FreezeInputs :
        freeze_stake(k, g, f[1], f[2])

InitTokenSpec ==
    InitCaseStudy({"Bronze"}, TokenBalances) /\ InitAccess /\ InitIdle

NextToken ==
    \/ InitializeTokenAny
    \/ StakeForValidationAny
    \/ UnstakeTokensAny
    \/ TokenSlashAny
    \/ FreezeStakeAny
    \/ Tick

SpecToken == InitTokenSpec /\ [][NextToken]_vars

-----------------------------------------------------------------------------
(* Properties of the token program's stakes *)

IsFrozenStake(k) == token_stake[k].is_initialized /\ token_stake[k].is_frozen

\* C32: once freeze_stake has set is_frozen on a stake of the token program,
\* the flag stays set in every later state, whatever the time, and every
\* unstake_tokens on that stake fails with StakeFrozen and leaves the stake and
\* the balances as they are, also once the stake's unlock_at has passed.
C32_FrozenStaysFrozen ==
    /\ [][\A k \in TokenStakeKeys :
             (~IsFrozenStake(k) /\ IsFrozenStake(k)')
                 => result' = Ok("freeze_stake")]_vars
    /\ [][\A k \in TokenStakeKeys : IsFrozenStake(k) => IsFrozenStake(k)']_vars
    /\ [][\A k \in TokenStakeKeys, v \in Validators,
            e \in {EscrowAuthority} \cup Validators :
             (IsFrozenStake(k) /\ unstake_tokens(k, v, e))
                 => /\ result' = Err("unstake_tokens", "StakeFrozen")
                    /\ UNCHANGED <<token_stake, token_account>>]_vars

\* A withdrawal of a frozen stake has just been refused although the stake's
\* unlock_at has passed.
C32_Witness ==
    /\ result = Err("unstake_tokens", "StakeFrozen")
    /\ \E k \in TokenStakeKeys :
          /\ IsFrozenStake(k)
          /\ token_stake[k].unlock_at > 0
          /\ clock >= token_stake[k].unlock_at

-----------------------------------------------------------------------------
(* Properties of the order of votes *)

\* The tallied fields of a submission, and their values at submission.
TallyFields(cs) ==
    [approval_count |-> cs.approval_count,
     rejection_count |-> cs.rejection_count,
     reputation_score |-> cs.reputation_score,
     validation_status |-> cs.validation_status]

TallyStart ==
    [approval_count |-> 0, rejection_count |-> 0, reputation_score |-> 0,
     validation_status |-> "Pending"]

\* The tallied fields after the vote recorded in r is processed on t.
TallyStep(t, r) ==
    LET a == approval_after(t, r.validation_type, r.reputation_weight)
        b == rejection_after(t, r.validation_type, r.reputation_weight)
        score == weighted_score(t.reputation_score, a, a + b)
    IN  [approval_count |-> a,
         rejection_count |-> b,
         reputation_score |-> score,
         validation_status |-> consensus_status(t.validation_status, a + b, score)]

\* The tallied fields after the votes of q are processed in the order of q.
RECURSIVE TallyOf(_)
TallyOf(q) ==
    IF q = <<>> THEN TallyStart
    ELSE TallyStep(TallyOf(SubSeq(q, 1, Len(q) - 1)), q[Len(q)])

\* Every order of the elements of S.
Orders(S) ==
    {q \in [1 .. Cardinality(S) -> S] :
        \A i, j \in 1 .. Cardinality(S) : q[i] = q[j] => i = j}

\* C33: when the votes on a submission were cast by distinct validators, the
\* submission's approval_count, rejection_count, reputation_score and
\* validation_status are what processing those votes gives in every order.
C33_VoteOrderIrrelevant ==
    \A s \in CaseStudyKeys :
        (/\ case_study[s] # NoAccount
         /\ \A v \in Validators : VoteRecords(v, s) <= 1)
            => \A q \in Orders(StakesOn(s)) :
                   TallyOf(q) = TallyFields(case_study[s])

-----------------------------------------------------------------------------
(* Properties of the approvers of an access request *)

\* The validators that hold a vote record on submission s.
StakeHoldersOn(s) == {r.validator : r \in StakesOn(s)}

\* C34: a request is Granted only after approvals by required_approvals
\* distinct validators, each counted once with a stake record of its own: a
\* Granted request's submission carries at least required_approvals stake
\* records, held by at least required_approvals validators.
C34_DistinctApprovers ==
    \A k \in AccessRequestKeys :
        (access_request[k] # NoAccount /\ access_request[k].status = "Granted")
            => /\ VoteRecordsOn(access_request[k].case_study)
                     >= access_request[k].required_approvals
               /\ Cardinality(StakeHoldersOn(access_request[k].case_study))
                     >= access_request[k].required_approvals

-----------------------------------------------------------------------------
(* Targeted slashes: stakes on two submissions, slashes requested on the first *)

\* One validator votes on both submissions.
StakeVoteOnEither ==
    \E s \in CaseStudyKeys :
        validator_prove_integrity("v1", s, "FurtherReview", ValidVote.proof_len, ValidVote.stake_amount, ValidVote.noir_circuit_id)

\* Governance requests slashes of stakes on the first submission only.
RequestSlashOnFirst ==
    \E stake \in StakesOn("cs1"), rq \in {<<0, "e1">>, <<40, "e1">>} :
        request_slash_validator(stake, Governance, rq[1], rq[2])

\* The treasury's principal confirms a slash of any stake, with either amount.
ConfirmSlashOfAny ==
    \E stake \in {r \in BagToSet(validator_stake) :
                    validator_reputation[r.validator].total_slashes < MaxConfirms},
       slash_amount \in {40, 60} :
        confirm_slash(stake, DBC_TREASURY_PROGRAM_ID, DBC_TREASURY_PROGRAM_ID,
                      slash_amount)

NextSlashTarget ==
    \/ SubmitAny(CaseStudyKeys)
    \/ StakeVoteOnEither
    \/ RequestSlashOnFirst
    \/ ConfirmSlashOfAny

SpecSlashTarget == InitSlashingSpec /\ [][NextSlashTarget]_vars

-----------------------------------------------------------------------------
(* Properties of targeted slashes *)

\* C35: confirm_slash marks as slashed only the stake record the outstanding
\* slash was requested for: where slashes are requested for stakes on the
\* first submission only, no stake record on the second submission is ever
\* is_slashed.
C35_OnlyRequestedStakeSlashed ==
    \A r \in StakesOn("cs2") : ~r.is_slashed

\* C36: a stake record is confirmed-slashed at most once: a confirm_slash on a
\* record whose is_slashed is already true does not succeed, and the record,
\* its slashed_amount included, stays as it is.
C36_SlashedOnce ==
    [][\A stake \in BagToSet(validator_stake), slash_amount \in {40, 60} :
          (/\ stake.is_slashed
           /\ confirm_slash(stake, DBC_TREASURY_PROGRAM_ID,
                            DBC_TREASURY_PROGRAM_ID, slash_amount))
             => /\ result'.err # "Ok"
                /\ UNCHANGED validator_stake]_vars

-----------------------------------------------------------------------------
(* Properties of the treasury's totals *)

\* The sum of amount over the stake accounts at the addresses K.
RECURSIVE SumStaked(_)
SumStaked(K) ==
    IF K = {} THEN 0
    ELSE LET k == CHOOSE x \in K : TRUE
         IN  stake_account[k].amount + SumStaked(K \ {k})

\* C37: in every state treasury.total_staked is the sum of amount over the
\* existing stake accounts of the treasury (none exist before the treasury).
C37_TotalStakedIsSum ==
    IF treasury.is_initialized
    THEN treasury.total_staked = SumStaked(DOMAIN stake_account)
    ELSE stake_account = <<>>

\* A stake has just been withdrawn while another, slashed before, remains.
C37_Witness ==
    /\ result = Ok("unstake_dbc")
    /\ treasury.total_staked > 0
    /\ \E k \in DOMAIN stake_account :
          stake_account[k].amount < STAKING_CONFIG.minimum_stake_base

\* The sum of amount over the daily distribution trackers at the keys K.
RECURSIVE SumDistributed(_)
SumDistributed(K) ==
    IF K = {} THEN 0
    ELSE LET k == CHOOSE x \in K : TRUE
         IN  distribution_tracker[k] + SumDistributed(K \ {k})

\* What has left the treasury token account since it was funded.
TransferredOut == FundedBalances["treasury"] - token_account["treasury"]

\* C38: in every state reached by rewards treasury.total_distributed is the
\* sum of amount over all daily distribution trackers, of every day and both
\* categories, and both are the amount transferred out of the treasury token
\* account; before the treasury exists nothing is tracked or transferred.
C38_TotalDistributedIsSum ==
    /\ SumDistributed(DOMAIN distribution_tracker) = TransferredOut
    /\ IF treasury.is_initialized
       THEN treasury.total_distributed = TransferredOut
       ELSE TransferredOut = 0

\* Rewards of both categories have been paid on two days.
C38_Witness ==
    /\ treasury.is_initialized
    /\ \A c \in Categories :
          \E d1, d2 \in Days :
              /\ d1 # d2
              /\ distribution_tracker[<<d1, c>>] > 0
              /\ distribution_tracker[<<d2, c>>] > 0

-----------------------------------------------------------------------------
(* Properties of the attention token link *)

HasToken(s) == case_study[s] # NoAccount /\ case_study[s].attention_token_mint # None

\* C39: link_attention_token succeeds only when signed by the submission's
\* submitter, while the submission is Approved with reputation_score >= 75 and
\* approval_count >= 5 and has no token linked, and it then stores the mint;
\* a linked attention_token_mint never changes, and a token becomes linked in
\* no other step; a submission is created Pending and becomes Approved only
\* by a successful vote, so an Approved state reached by votes precedes every
\* link.
C39_LinkGuard ==
    /\ [][\A s \in CaseStudyKeys, submitter \in {"alice", "v1"}, mint \in {1, 2} :
             (link_attention_token(s, submitter, mint) /\ result'.err = "Ok")
                => /\ submitter = case_study[s].submitter
                   /\ case_study[s].validation_status = "Approved"
                   /\ case_study[s].reputation_score >= 75
                   /\ case_study[s].approval_count >= 5
                   /\ case_study[s].attention_token_mint = None
                   /\ case_study'[s].attention_token_mint = mint]_vars
    /\ [][\A s \in CaseStudyKeys :
             HasToken(s)
                => /\ HasToken(s)'
                   /\ case_study'[s].attention_token_mint
                         = case_study[s].attention_token_mint]_vars
    /\ [][\A s \in CaseStudyKeys :
             (~HasToken(s) /\ HasToken(s)')
                => /\ result' = Ok("link_attention_token")
                   /\ case_study[s] # NoAccount
                   /\ case_study[s].validation_status = "Approved"]_vars
    /\ [][\A s \in CaseStudyKeys :
             /\ (case_study[s] = NoAccount /\ case_study'[s] # NoAccount)
                   => case_study'[s].validation_status = "Pending"
             /\ (/\ case_study'[s] # NoAccount
                 /\ case_study'[s].validation_status = "Approved"
                 /\ (case_study[s] = NoAccount
                        \/ case_study[s].validation_status # "Approved"))
                   => result' = Ok("validator_prove_integrity")]_vars

\* A second link has just been refused: the first token stays linked.
C39_Witness ==
    /\ result = Err("link_attention_token", "AttentionTokenAlreadyExists")
    /\ HasToken("cs1")
    /\ case_study["cs1"].attention_token_mint = 1

=============================================================================
